---------------------------- MODULE Spec2Model ----------------------------
(***************************************************************************)
(* Model of the Cyrillic-to-Latin transliteration bot:                     *)
(*   src/transliterator.py          RussianTransliterator                  *)
(*   src/chuvash_transliterator.py  ChuvashTransliterator                  *)
(*   src/bot.py                     TelegramBot                            *)
(*                                                                         *)
(* A Python str is a sequence of characters.  TLA+ strings are atomic and  *)
(* ASCII only, so a character is a short ASCII name and a str is a         *)
(* sequence of names:                                                      *)
(*   "cy_a" .. "cy_ya"  Cyrillic small letters, "CY_A" .. their capitals   *)
(*   "cy_a_breve" (U+04D1), "cy_ie_breve" (U+04D7), "cy_es_desc" (U+04AB), *)
(*   "cy_u_dacute" (U+04F3): the four Chuvash letters                      *)
(*   "cy_rounded_ve" (U+1C80), "cy_tall_hard" (U+1C86): two of the         *)
(*   historic small letters of the Cyrillic Extended-C block               *)
(*   "a" .. "z", "A" .. "Z": Latin letters; "ae" (U+00E6), "a_uml",        *)
(*   "o_uml", "u_uml", "e_dot" (U+0117), "s_acute", "s_caron", "z_caron",  *)
(*   "c_ced" (U+00E7) and their capitals                                   *)
(*   "emdash" (U+2014), "7" a digit, " " "," "." "!" "?" themselves        *)
(* The empty Python string '' read as a missing neighbour (prev, next_ch)  *)
(* is the TLA+ string "".                                                  *)
(***************************************************************************)
EXTENDS Integers, Sequences, FiniteSets, TLC

VARIABLES
    lang,                  \* which class runs: "russian" or "chuvash"
    exc,                   \* the exception that ended the call, or "none"
    \* transliterate(text)
    text,                  \* the argument
    tokens,                \* re.split's list
    idx,                   \* the place in tokens of the for loop's next token
    output,                \* the local output
    pc,                    \* "idle", "call", "loop", "done", "raised"
    \* transliterate_word(word)
    word,                  \* the argument of the outermost call
    stack,                 \* one entry per active call: the length of its word,
                           \* which is word[:length] (base = word[:-2] each time)
    letters, i, result,    \* the locals of the scan loop
    ret,                   \* the value being returned
    wpc,                   \* "idle", "enter", "scan", "return", "iotation",
                           \* "map", "done", "raised"
    processed_word,        \* Chuvash: after process_soft_sign
    iotated_word,          \* Chuvash: after handle_iotation
    \* TelegramBot
    user_language, user_last_message,
    now,                   \* time.time()
    reply,                 \* the last send_message or answer_inline_query
    api_calls,             \* the Bot API methods called for the last update, in order
    \* calls of transliterate in progress at the same time on one instance
    calls,                 \* per call its locals text, tokens, idx and its pc
    outputs,               \* per call its local output
    attrs,                 \* the attributes of the instance (self.map, ...)
    \* webhook requests in progress at the same time on the one bot
    requests               \* per request its user, its place in check_spam_limit,
                           \* its local current_time and what the check returned

textVars == <<text, tokens, idx, output, pc>>
wordVars == <<word, stack, letters, i, result, ret, wpc, processed_word, iotated_word>>
botVars  == <<user_language, user_last_message, now, reply, api_calls>>
concVars == <<calls, outputs, attrs, requests>>
vars     == <<lang, exc, textVars, wordVars, botVars, concVars>>

----------------------------------------------------------------------------
(* Characters and str methods *)

\* а..я in code-point order (U+0430..U+044F): the range of the class [а-я]
CyrLowerSeq ==
    << "cy_a", "cy_be", "cy_ve", "cy_ghe", "cy_de", "cy_ie", "cy_zhe", "cy_ze",
       "cy_i", "cy_short_i", "cy_ka", "cy_el", "cy_em", "cy_en", "cy_o", "cy_pe",
       "cy_er", "cy_es", "cy_te", "cy_u", "cy_ef", "cy_ha", "cy_tse", "cy_che",
       "cy_sha", "cy_shcha", "cy_hard", "cy_yeru", "cy_soft", "cy_e", "cy_yu",
       "cy_ya" >>

\* А..Я in code-point order (U+0410..U+042F)
CyrUpperSeq ==
    << "CY_A", "CY_BE", "CY_VE", "CY_GHE", "CY_DE", "CY_IE", "CY_ZHE", "CY_ZE",
       "CY_I", "CY_SHORT_I", "CY_KA", "CY_EL", "CY_EM", "CY_EN", "CY_O", "CY_PE",
       "CY_ER", "CY_ES", "CY_TE", "CY_U", "CY_EF", "CY_HA", "CY_TSE", "CY_CHE",
       "CY_SHA", "CY_SHCHA", "CY_HARD", "CY_YERU", "CY_SOFT", "CY_E", "CY_YU",
       "CY_YA" >>

\* every cased character of the model, small form and capital form
LowerSeq ==
    CyrLowerSeq \o
    << "cy_io", "cy_a_breve", "cy_ie_breve", "cy_es_desc", "cy_u_dacute",
       "cy_rounded_ve", "cy_tall_hard",
       "a", "b", "c", "d", "e", "f", "g", "h", "i", "j", "k", "l", "m", "n",
       "o", "p", "q", "r", "s", "t", "u", "v", "w", "x", "y", "z",
       "ae", "a_uml", "o_uml", "u_uml", "e_dot", "s_acute", "s_caron",
       "z_caron", "c_ced" >>

UpperSeq ==
    CyrUpperSeq \o
    << "CY_IO", "CY_A_BREVE", "CY_IE_BREVE", "CY_ES_DESC", "CY_U_DACUTE",
       "CY_VE", "CY_HARD",
       "A", "B", "C", "D", "E", "F", "G", "H", "I", "J", "K", "L", "M", "N",
       "O", "P", "Q", "R", "S", "T", "U", "V", "W", "X", "Y", "Z",
       "AE", "A_UML", "O_UML", "U_UML", "E_DOT", "S_ACUTE", "S_CARON",
       "Z_CARON", "C_CED" >>

Range(s) == { s[k] : k \in DOMAIN s }

LowerChars == Range(LowerSeq)
UpperChars == Range(UpperSeq)

\* str.upper() of one small letter (U+1C80 and U+1C86 capitalise to В and Ъ)
UpperOf == [ c \in LowerChars |-> UpperSeq[CHOOSE k \in DOMAIN LowerSeq : LowerSeq[k] = c] ]

\* str.lower() of one capital letter
LowerOf == [ c \in UpperChars |->
               LowerSeq[CHOOSE k \in DOMAIN UpperSeq :
                           UpperSeq[k] = c /\ LowerSeq[k] \notin {"cy_rounded_ve", "cy_tall_hard"}] ]

isupper(c) == c \in UpperChars
islower(c) == c \in LowerChars

ToLower(c) == IF c \in UpperChars THEN LowerOf[c] ELSE c
ToUpper(c) == IF c \in LowerChars THEN UpperOf[c] ELSE c

\* str.lower()
lower(s) == [ k \in DOMAIN s |-> ToLower(s[k]) ]

\* str.capitalize(): first character upper-cased, the rest lower-cased
capitalize(s) == [ k \in DOMAIN s |-> IF k = 1 THEN ToUpper(s[k]) ELSE ToLower(s[k]) ]

\* ''.join(units)
RECURSIVE join(_)
join(units) == IF units = << >> THEN << >> ELSE Head(units) \o join(Tail(units))

\* str.endswith
endswith(s, suffix) ==
    /\ Len(s) >= Len(suffix)
    /\ SubSeq(s, Len(s) - Len(suffix) + 1, Len(s)) = suffix

----------------------------------------------------------------------------
(* Character classes of the regular expressions *)

CyrLower == Range(CyrLowerSeq)
CyrUpper == Range(CyrUpperSeq)

\* the four Chuvash letters of ChuvashTransliterator.transliterate's class
ChuvashLower == { "cy_a_breve", "cy_ie_breve", "cy_es_desc", "cy_u_dacute" }

\* re.IGNORECASE: a character matches a class when its lower-case form is a
\* member, or when it is a case-insensitive equivalent of a member.  CPython
\* adds to every class the equivalents of its members: U+1C80..U+1C86, whose
\* capitals are В, Д, О, С, Т, Т, Ъ, are equivalents of в, д, о, с, т, ъ.
IgnoreCaseEquivalents(class) ==
    { c \in {"cy_rounded_ve", "cy_tall_hard"} : ToLower(ToUpper(c)) \in class }

MatchesIgnoreCase(c, class) ==
    \/ ToLower(c) \in class
    \/ c \in IgnoreCaseEquivalents(class)

\* re.search(r'[...]', s, re.IGNORECASE) is not None
SearchIgnoreCase(s, class) == \E k \in DOMAIN s : MatchesIgnoreCase(s[k], class)

\* \s (the ASCII members) , . ! ?
Whitespace == { " ", "\t", "\n", "\r", "\f" }
SeparatorClass == Whitespace \cup { ",", ".", "!", "?" }

----------------------------------------------------------------------------
(* RussianTransliterator *)

\* self.map
RuMap ==
    ("cy_a" :> <<"a">>) @@ ("cy_be" :> <<"b">>) @@ ("cy_ve" :> <<"v">>) @@
    ("cy_ghe" :> <<"g">>) @@ ("cy_de" :> <<"d">>) @@ ("cy_ie" :> <<"e">>) @@
    ("cy_io" :> <<"e">>) @@ ("cy_zhe" :> <<"j">>) @@ ("cy_ze" :> <<"z">>) @@
    ("cy_i" :> <<"i">>) @@ ("cy_short_i" :> <<"i">>) @@ ("cy_ka" :> <<"k">>) @@
    ("cy_el" :> <<"l">>) @@ ("cy_em" :> <<"m">>) @@ ("cy_en" :> <<"n">>) @@
    ("cy_o" :> <<"o">>) @@ ("cy_pe" :> <<"p">>) @@ ("cy_er" :> <<"r">>) @@
    ("cy_es" :> <<"s">>) @@ ("cy_te" :> <<"t">>) @@ ("cy_u" :> <<"u">>) @@
    ("cy_ef" :> <<"f">>) @@ ("cy_ha" :> <<"h">>) @@ ("cy_tse" :> <<"q">>) @@
    ("cy_che" :> <<"c">>) @@ ("cy_sha" :> <<"x">>) @@ ("cy_shcha" :> <<"s", "c">>) @@
    ("cy_hard" :> <<"i">>) @@ ("cy_yeru" :> <<"y">>) @@ ("cy_soft" :> <<"i">>) @@
    ("cy_e" :> <<"ae">>) @@ ("cy_yu" :> <<"e", "u">>) @@ ("cy_ya" :> <<"e", "a">>)

\* self.vowels
vowels == { "cy_a", "cy_ie", "cy_io", "cy_i", "cy_o", "cy_u", "cy_yeru", "cy_e",
            "cy_yu", "cy_ya" }

\* self.soft_signs
soft_signs == { "cy_soft", "cy_hard" }

\* self.consonants_pattern.match(c) is not None
consonants_pattern(c) ==
    c \in { "cy_be", "cy_ve", "cy_ghe", "cy_de", "cy_zhe", "cy_ze", "cy_short_i",
            "cy_ka", "cy_el", "cy_em", "cy_en", "cy_pe", "cy_er", "cy_es", "cy_te",
            "cy_ef", "cy_ha", "cy_tse", "cy_che", "cy_sha", "cy_shcha" }

\* self.map.get(ch, ch), with the default dropped
RuMapGet_NoDefault(ch) == IF ch \in DOMAIN RuMap THEN RuMap[ch] ELSE << >>

\* self.map.get(ch, ch)
RuMapGet(ch) == IF ch \in DOMAIN RuMap THEN RuMap[ch] ELSE <<ch>>

\* letters[i - 1] if i > 0 else ''
RuPrev(ls, k) == IF k > 0 THEN ls[k] ELSE ""

\* letters[i + 1] if i < len(letters) - 1 else ''
RuNext(ls, k) == IF k < Len(ls) - 1 THEN ls[k + 2] ELSE ""

\* One pass of the while loop leaves (i, result), or raises: exc names the
\* exception ("none" when the pass completes).
Emit(k, res, units, step) == [ i |-> k + step, result |-> res \o units, exc |-> "none" ]
Raise(k, res, e) == [ i |-> k, result |-> res, exc |-> e ]

\* if ch == 'и' and next_ch in ['я', 'ё', 'ю']
RuIDigraph(ls, k, res) ==
    LET next_ch == RuNext(ls, k)
    IN  Emit(k, res,
             << IF next_ch = "cy_ya" THEN <<"i", "a">>
                ELSE IF next_ch = "cy_io" THEN <<"i", "o">>
                ELSE <<"i", "u">> >>, 2)

\* the sign rule looking at next_ch after a previous character of any class
RuSign_AnyPrevious(ls, k, res) ==
    LET ch == ls[k + 1]
        prev == RuPrev(ls, k)
        next_ch == RuNext(ls, k)
        dup == IF ch = "cy_soft" /\ consonants_pattern(prev) THEN << RuMapGet(prev) >> ELSE << >>
    IN  IF k > 0
        THEN IF next_ch \in { "cy_a", "cy_e", "cy_yeru", "cy_o", "cy_u", "cy_i" }
             THEN Emit(k, res, dup \o << <<"i">> \o RuMap[next_ch] >>, 2)
             ELSE IF next_ch = "cy_yu" THEN Emit(k, res, dup \o << <<"i">>, <<"u">> >>, 2)
             ELSE IF next_ch = "cy_ya" THEN Emit(k, res, dup \o << <<"i">>, <<"a">> >>, 2)
             ELSE IF next_ch = "cy_io" THEN Emit(k, res, dup \o << <<"i">>, <<"o">> >>, 2)
             ELSE IF next_ch = "cy_ie" THEN Emit(k, res, dup \o << <<"i">>, <<"e">> >>, 2)
             ELSE Emit(k, res, dup, 1)
        ELSE Emit(k, res, << <<"i">> >>, 1)

\* the sign rule duplicating the consonant for either sign
RuSign_EitherSign(ls, k, res) ==
    LET prev == RuPrev(ls, k)
        next_ch == RuNext(ls, k)
        dup == << RuMapGet(prev) >>
    IN  IF k > 0 /\ consonants_pattern(prev)
        THEN IF next_ch \in { "cy_a", "cy_e", "cy_yeru", "cy_o", "cy_u", "cy_i" }
             THEN Emit(k, res, dup \o << <<"i">> \o RuMap[next_ch] >>, 2)
             ELSE IF next_ch = "cy_yu" THEN Emit(k, res, dup \o << <<"i">>, <<"u">> >>, 2)
             ELSE IF next_ch = "cy_ya" THEN Emit(k, res, dup \o << <<"i">>, <<"a">> >>, 2)
             ELSE IF next_ch = "cy_io" THEN Emit(k, res, dup \o << <<"i">>, <<"o">> >>, 2)
             ELSE IF next_ch = "cy_ie" THEN Emit(k, res, dup \o << <<"i">>, <<"e">> >>, 2)
             ELSE Emit(k, res, dup, 1)
        ELSE Emit(k, res, << <<"i">> >>, 1)

\* if ch in self.soft_signs
RuSign(ls, k, res) ==
    LET ch == ls[k + 1]
        prev == RuPrev(ls, k)
        next_ch == RuNext(ls, k)
        dup == IF ch = "cy_soft" THEN << RuMapGet(prev) >> ELSE << >>
    IN  IF k > 0 /\ consonants_pattern(prev)
        THEN IF next_ch \in { "cy_a", "cy_e", "cy_yeru", "cy_o", "cy_u", "cy_i" }
             THEN IF next_ch \in DOMAIN RuMap
                  THEN Emit(k, res, dup \o << <<"i">> \o RuMap[next_ch] >>, 2)
                  ELSE Raise(k, res \o dup, "KeyError")
             ELSE IF next_ch = "cy_yu" THEN Emit(k, res, dup \o << <<"i">>, <<"u">> >>, 2)
             ELSE IF next_ch = "cy_ya" THEN Emit(k, res, dup \o << <<"i">>, <<"a">> >>, 2)
             ELSE IF next_ch = "cy_io" THEN Emit(k, res, dup \o << <<"i">>, <<"o">> >>, 2)
             ELSE IF next_ch = "cy_ie" THEN Emit(k, res, dup \o << <<"i">>, <<"e">> >>, 2)
             ELSE Emit(k, res, dup, 1)
        ELSE Emit(k, res, << <<"i">> >>, 1)

\* the 'й' rule without its test of prev
RuShortI_NoPrevTest(ls, k, res) ==
    IF res = << >>
    THEN Raise(k, res, "IndexError")
    ELSE Emit(k, [res EXCEPT ![Len(res)] = <<"e">>], << <<"i">> >>, 1)

\* if ch == 'й'
RuShortI(ls, k, res) ==
    IF RuPrev(ls, k) = "cy_i"
    THEN IF res = << >>
         THEN Raise(k, res, "IndexError")
         ELSE Emit(k, [res EXCEPT ![Len(res)] = <<"e">>], << <<"i">> >>, 1)
    ELSE Emit(k, res, << <<"i">> >>, 1)

\* the 'и' rule without its first test, of prev == 'и'
RuI_NoPrevI(ls, k, res) ==
    LET prev == RuPrev(ls, k)
        next_ch == RuNext(ls, k)
    IN  IF prev \in vowels /\ next_ch \notin { "cy_ya", "cy_io", "cy_yu" }
        THEN Emit(k, res, << <<"i", "i">> >>, 1)
        ELSE Emit(k, res, << <<"i">> >>, 1)

\* if ch == 'и'
RuI(ls, k, res) ==
    LET prev == RuPrev(ls, k)
        next_ch == RuNext(ls, k)
    IN  IF prev = "cy_i" THEN Emit(k, res, << <<"i">> >>, 1)
        ELSE IF prev \in vowels /\ next_ch \notin { "cy_ya", "cy_io", "cy_yu" }
             THEN Emit(k, res, << <<"i", "i">> >>, 1)
        ELSE Emit(k, res, << <<"i">> >>, 1)

\* the 'я' / 'ё' / 'ю' rule testing prev in self.vowels before prev == 'и'
RuIotated_VowelFirst(ls, k, res, afterConsonant, afterI, afterVowel, otherwise) ==
    LET prev == RuPrev(ls, k)
    IN  IF consonants_pattern(prev) THEN Emit(k, res, << afterConsonant >>, 1)
        ELSE IF prev \in vowels THEN Emit(k, res, << afterVowel >>, 1)
        ELSE IF prev = "cy_i" THEN Emit(k, res, << afterI >>, 1)
        ELSE Emit(k, res, << otherwise >>, 1)

\* if ch == 'я' / 'ё' / 'ю': the four forms are those after a consonant,
\* after 'и', after another vowel, and otherwise
RuIotated(ls, k, res, afterConsonant, afterI, afterVowel, otherwise) ==
    LET prev == RuPrev(ls, k)
    IN  IF consonants_pattern(prev) THEN Emit(k, res, << afterConsonant >>, 1)
        ELSE IF prev = "cy_i" THEN Emit(k, res, << afterI >>, 1)
        ELSE IF prev \in vowels THEN Emit(k, res, << afterVowel >>, 1)
        ELSE Emit(k, res, << otherwise >>, 1)

\* the 'у' rule without its test of prev
RuU_AlwaysGlide(ls, k, res) == Emit(k, res, << <<"w">> >>, 1)

\* if ch == 'у'
RuU(ls, k, res) ==
    IF RuPrev(ls, k) \in vowels
    THEN Emit(k, res, << <<"w">> >>, 1)
    ELSE Emit(k, res, << <<"u">> >>, 1)

\* the 'а' / 'о' test without prev not in ['и', 'е']
RuGlide_AfterAnyVowel(ls, k) ==
    LET ch == ls[k + 1]
        prev == RuPrev(ls, k)
    IN  /\ ch \in { "cy_a", "cy_o" }
        /\ prev \in vowels
        /\ prev # ch

\* if ch == 'а' (or 'о') and prev in self.vowels and prev not in ['и', 'е'] and prev != ch
RuGlide(ls, k) ==
    LET ch == ls[k + 1]
        prev == RuPrev(ls, k)
    IN  /\ ch \in { "cy_a", "cy_o" }
        /\ prev \in vowels
        /\ prev \notin { "cy_i", "cy_ie" }
        /\ prev # ch

\* the body of the while loop at index k
RuStep(ls, k, res) ==
    LET ch == ls[k + 1]
        next_ch == RuNext(ls, k)
    IN  IF ch = "cy_i" /\ next_ch \in { "cy_ya", "cy_io", "cy_yu" } THEN RuIDigraph(ls, k, res)
        ELSE IF ch \in soft_signs THEN RuSign(ls, k, res)
        ELSE IF ch = "cy_short_i" THEN RuShortI(ls, k, res)
        ELSE IF ch = "cy_i" THEN RuI(ls, k, res)
        ELSE IF ch = "cy_ya"
             THEN RuIotated(ls, k, res, <<"a_uml">>, <<"i", "a">>, <<"a">>, <<"e", "a">>)
        ELSE IF ch = "cy_io"
             THEN RuIotated(ls, k, res, <<"e">>, <<"i", "o">>, <<"e">>, <<"e">>)
        ELSE IF ch = "cy_yu"
             THEN RuIotated(ls, k, res, <<"u_uml">>, <<"i", "u">>, <<"u">>, <<"e", "u">>)
        ELSE IF ch = "cy_u" THEN RuU(ls, k, res)
        ELSE IF RuGlide(ls, k) THEN Emit(k, res, << <<"w">> \o RuMap[ch] >>, 1)
        ELSE Emit(k, res, << RuMapGet(ch) >>, 1)

\* the while loop from index k
RECURSIVE RuScan(_, _, _)
RuScan(ls, k, res) ==
    IF k >= Len(ls)
    THEN [ result |-> res, exc |-> "none" ]
    ELSE LET s == RuStep(ls, k, res)
         IN  IF s.exc # "none"
             THEN [ result |-> s.result, exc |-> s.exc ]
             ELSE RuScan(ls, s.i, s.result)

\* word[0].isupper() -> transliterated_word.capitalize()
PreserveCapitalization(w, transliterated_word) ==
    IF Len(w) > 0 /\ isupper(w[1])
    THEN capitalize(transliterated_word)
    ELSE transliterated_word

\* base = word[:-2], one character short
SuffixBase_OneShort(w) == SubSeq(w, 1, Len(w) - 1)

\* base = word[:-2]
SuffixBase(w) == SubSeq(w, 1, Len(w) - 2)

\* word_lower.endswith('ый')
EndsWithYj(w) == endswith(lower(w), <<"cy_yeru", "cy_short_i">>)

\* The interpreter's limit on nested calls (sys.getrecursionlimit(), 1000
\* unless changed; the source does not change it).  A call that would make
\* the stack deeper raises RecursionError.
RecursionLimit == 1000

\* RussianTransliterator.transliterate_word(word), called with depth - 1
\* frames of transliterate_word below it: [ret, exc]
RECURSIVE RuWord(_, _)
RuWord(w, depth) ==
    IF depth > RecursionLimit THEN [ ret |-> << >>, exc |-> "RecursionError" ]
    ELSE IF w = << >> THEN [ ret |-> w, exc |-> "none" ]
    ELSE IF EndsWithYj(w)
         THEN LET b == RuWord(SuffixBase(w), depth + 1)
              IN  IF b.exc # "none" THEN b
                  ELSE [ ret |-> b.ret \o <<"y">>, exc |-> "none" ]
    ELSE LET s == RuScan(lower(w), 0, << >>)
         IN  IF s.exc # "none" THEN [ ret |-> << >>, exc |-> s.exc ]
             ELSE [ ret |-> PreserveCapitalization(w, join(s.result)), exc |-> "none" ]

RuTransliterateWord(w) == RuWord(w, 1)

----------------------------------------------------------------------------
(* ChuvashTransliterator *)

\* self.map
CvMap ==
    ("CY_A" :> <<"A">>) @@ ("cy_a" :> <<"a">>) @@
    ("CY_A_BREVE" :> <<"O">>) @@ ("cy_a_breve" :> <<"o">>) @@
    ("CY_VE" :> <<"V">>) @@ ("cy_ve" :> <<"v">>) @@
    ("CY_IE_BREVE" :> <<"E_DOT">>) @@ ("cy_ie_breve" :> <<"e_dot">>) @@
    ("CY_I" :> <<"I">>) @@ ("cy_i" :> <<"i">>) @@
    ("CY_SHORT_I" :> <<"J">>) @@ ("cy_short_i" :> <<"j">>) @@
    ("CY_KA" :> <<"K">>) @@ ("cy_ka" :> <<"k">>) @@
    ("CY_EL" :> <<"L">>) @@ ("cy_el" :> <<"l">>) @@
    ("CY_EM" :> <<"M">>) @@ ("cy_em" :> <<"m">>) @@
    ("CY_EN" :> <<"N">>) @@ ("cy_en" :> <<"n">>) @@
    ("CY_O" :> <<"O">>) @@ ("cy_o" :> <<"o">>) @@
    ("CY_PE" :> <<"P">>) @@ ("cy_pe" :> <<"p">>) @@
    ("CY_ER" :> <<"R">>) @@ ("cy_er" :> <<"r">>) @@
    ("CY_ES" :> <<"S">>) @@ ("cy_es" :> <<"s">>) @@
    ("CY_ES_DESC" :> <<"S_ACUTE">>) @@ ("cy_es_desc" :> <<"s_acute">>) @@
    ("CY_TE" :> <<"T">>) @@ ("cy_te" :> <<"t">>) @@
    ("CY_U" :> <<"U">>) @@ ("cy_u" :> <<"u">>) @@
    ("CY_U_DACUTE" :> <<"U_UML">>) @@ ("cy_u_dacute" :> <<"u_uml">>) @@
    ("CY_HA" :> <<"H">>) @@ ("cy_ha" :> <<"h">>) @@
    ("CY_CHE" :> <<"C">>) @@ ("cy_che" :> <<"c">>) @@
    ("C_CED" :> <<"S_ACUTE">>) @@ ("c_ced" :> <<"s_acute">>) @@
    ("CY_SHA" :> <<"S_CARON">>) @@ ("cy_sha" :> <<"s_caron">>) @@
    ("CY_YERU" :> <<"Y">>) @@ ("cy_yeru" :> <<"y">>) @@
    ("CY_E" :> <<"E">>) @@ ("cy_e" :> <<"e">>) @@
    ("CY_ZHE" :> <<"Z_CARON">>) @@ ("cy_zhe" :> <<"z_caron">>) @@
    ("CY_SHCHA" :> <<"S_ACUTE">>) @@ ("cy_shcha" :> <<"s_acute">>) @@
    ("CY_BE" :> <<"B">>) @@ ("cy_be" :> <<"b">>) @@
    ("CY_GHE" :> <<"G">>) @@ ("cy_ghe" :> <<"g">>) @@
    ("CY_DE" :> <<"D">>) @@ ("cy_de" :> <<"d">>) @@
    ("CY_ZE" :> <<"Z">>) @@ ("cy_ze" :> <<"z">>) @@
    ("CY_TSE" :> <<"T", "s">>) @@ ("cy_tse" :> <<"t", "s">>) @@
    ("CY_EF" :> <<"F">>) @@ ("cy_ef" :> <<"f">>) @@
    ("CY_HARD" :> << >>) @@ ("cy_hard" :> << >>) @@
    ("CY_SOFT" :> << >>) @@ ("cy_soft" :> << >>)

\* self.map.get(char, char)
CvMapGet(char) == IF char \in DOMAIN CvMap THEN CvMap[char] ELSE <<char>>

\* group 1 of process_soft_sign's pattern: [А-Яа-яЁё] and the Chuvash letters
SoftSignPreceding_Consonants == { c \in CyrUpper \cup CyrLower : ~ (ToLower(c) \in vowels \cup soft_signs) }

SoftSignPreceding ==
    CyrUpper \cup CyrLower \cup { "CY_IO", "cy_io" }
        \cup { "CY_A_BREVE", "cy_a_breve", "CY_IE_BREVE", "cy_ie_breve",
               "CY_ES_DESC", "cy_es_desc", "CY_U_DACUTE", "cy_u_dacute" }

\* process_soft_sign from position p: re.sub replaces the matches found left
\* to right, none overlapping the one before
RECURSIVE SubSoftSign(_, _)
SubSoftSign(s, p) ==
    IF p > Len(s) THEN << >>
    ELSE IF p < Len(s) /\ s[p] \in SoftSignPreceding /\ s[p + 1] \in { "cy_soft", "CY_SOFT" }
         THEN << s[p], s[p] >> \o SubSoftSign(s, p + 2)
    ELSE << s[p] >> \o SubSoftSign(s, p + 1)

process_soft_sign(s) == SubSoftSign(s, 1)

\* is_consonant accepting every letter of process_soft_sign's class
is_consonant_AnyLetter(char) == char \in SoftSignPreceding

is_consonant(char) ==
    char \in { "CY_BE", "CY_VE", "CY_GHE", "CY_DE", "CY_ZHE", "CY_ZE", "CY_SHORT_I",
               "CY_KA", "CY_EL", "CY_EM", "CY_EN", "CY_PE", "CY_ER", "CY_ES",
               "CY_ES_DESC", "CY_TE", "CY_EF", "CY_HA", "CY_TSE", "CY_CHE", "CY_SHA",
               "CY_SHCHA",
               "cy_be", "cy_ve", "cy_ghe", "cy_de", "cy_zhe", "cy_ze", "cy_short_i",
               "cy_ka", "cy_el", "cy_em", "cy_en", "cy_pe", "cy_er", "cy_es",
               "cy_es_desc", "cy_te", "cy_ef", "cy_ha", "cy_tse", "cy_che", "cy_sha",
               "cy_shcha" }

\* the forms handle_iotation appends, with the capital forms forgotten
IotatedForm_LowerOnly(char, afterConsonant) ==
    LET c == ToLower(char)
    IN  IF c = "cy_ie" THEN (IF afterConsonant THEN <<"e">> ELSE <<"j", "e">>)
        ELSE IF c = "cy_io" THEN (IF afterConsonant THEN <<"o_uml">> ELSE <<"j", "o">>)
        ELSE IF c = "cy_yu" THEN (IF afterConsonant THEN <<"u_uml">> ELSE <<"j", "u">>)
        ELSE (IF afterConsonant THEN <<"a_uml">> ELSE <<"j", "a">>)

\* the form handle_iotation appends for char in 'еЕ', 'ёЁ', 'юЮ', 'яЯ'
IotatedForm(char, afterConsonant) ==
    LET up == isupper(char)
    IN  IF char \in { "cy_ie", "CY_IE" }
        THEN (IF afterConsonant THEN (IF up THEN <<"E">> ELSE <<"e">>)
              ELSE (IF up THEN <<"J", "e">> ELSE <<"j", "e">>))
        ELSE IF char \in { "cy_io", "CY_IO" }
        THEN (IF afterConsonant THEN (IF up THEN <<"O_UML">> ELSE <<"o_uml">>)
              ELSE (IF up THEN <<"J", "o">> ELSE <<"j", "o">>))
        ELSE IF char \in { "cy_yu", "CY_YU" }
        THEN (IF afterConsonant THEN (IF up THEN <<"U_UML">> ELSE <<"u_uml">>)
              ELSE (IF up THEN <<"J", "u">> ELSE <<"j", "u">>))
        ELSE (IF afterConsonant THEN (IF up THEN <<"A_UML">> ELSE <<"a_uml">>)
              ELSE (IF up THEN <<"J", "a">> ELSE <<"j", "a">>))

IotatedLetters == { "cy_ie", "CY_IE", "cy_io", "CY_IO", "cy_yu", "CY_YU", "cy_ya", "CY_YA" }

\* handle_iotation's list result: one unit per character of the word
IotationUnits(w) ==
    [ p \in DOMAIN w |->
        IF w[p] \in IotatedLetters
        THEN IotatedForm(w[p], p > 1 /\ is_consonant(w[p - 1]))
        ELSE << w[p] >> ]

handle_iotation(w) == join(IotationUnits(w))

\* step 3 of transliterate_word: the list result, one unit per character
CvMapUnits(s) == [ p \in DOMAIN s |-> CvMapGet(s[p]) ]

\* ChuvashTransliterator.transliterate_word(word)
CvTransliterateWord(w) ==
    IF w = << >> THEN w
    ELSE join(CvMapUnits(handle_iotation(process_soft_sign(w))))

----------------------------------------------------------------------------
(* transliterate(text) of both classes *)

Langs == { "russian", "chuvash" }

\* re.split from position p, toks being the tokens found so far: the tokens
\* at odd places are between separators, those at even places are the
\* separators (the capturing group keeps them)
RECURSIVE ReSplitFrom(_, _, _, _)
ReSplitFrom(s, p, toks, inSep) ==
    IF p > Len(s)
    THEN (IF inSep THEN Append(toks, << >>) ELSE toks)
    ELSE IF (s[p] \in SeparatorClass) = inSep
         THEN ReSplitFrom(s, p + 1, [toks EXCEPT ![Len(toks)] = Append(@, s[p])], inSep)
         ELSE ReSplitFrom(s, p + 1, Append(toks, << s[p] >>), ~inSep)

\* re.split(r'[\s,.!?]+', text): without the capturing group the separators
\* are dropped
re_split_NoGroup(s) ==
    LET toks == ReSplitFrom(s, 1, << << >> >>, FALSE)
    IN  [ k \in 1 .. ((Len(toks) + 1) \div 2) |-> toks[2 * k - 1] ]

\* re.split(r'([\s,.!?]+)', text)
re_split(s) == ReSplitFrom(s, 1, << << >> >>, FALSE)

\* re.search(r'[а-яё]', token, re.IGNORECASE)
RuSearch(token) == SearchIgnoreCase(token, CyrLower \cup { "cy_io" })

\* re.search(r'[а-яёӑӗҫӳ]', token, re.IGNORECASE)
CvSearch(token) == SearchIgnoreCase(token, CyrLower \cup { "cy_io" } \cup ChuvashLower)

TokenSearch(l, token) == IF l = "russian" THEN RuSearch(token) ELSE CvSearch(token)

\* the body of the for loop, with the token always handed to transliterate_word
TokenOutput_NoSearch(l, token) ==
    IF l = "russian"
    THEN RuTransliterateWord(token)
    ELSE [ ret |-> CvTransliterateWord(token), exc |-> "none" ]

\* the body of the for loop: what is added to output for one token
TokenOutput(l, token) ==
    IF TokenSearch(l, token)
    THEN IF l = "russian"
         THEN RuTransliterateWord(token)
         ELSE [ ret |-> CvTransliterateWord(token), exc |-> "none" ]
    ELSE [ ret |-> token, exc |-> "none" ]

\* the for loop from token k on
RECURSIVE TokenLoop(_, _, _, _)
TokenLoop(l, toks, k, out) ==
    IF k > Len(toks) THEN [ ret |-> out, exc |-> "none" ]
    ELSE LET t == TokenOutput(l, toks[k])
         IN  IF t.exc # "none" THEN t
             ELSE TokenLoop(l, toks, k + 1, out \o t.ret)

\* transliterate(text): [ret, exc]
Transliterate(l, s) ==
    IF s = << >> THEN [ ret |-> s, exc |-> "none" ]
    ELSE TokenLoop(l, re_split(s), 1, << >>)

----------------------------------------------------------------------------
(* Bounds and inputs *)

MaxTextLen == 4
MaxWordLen == 4
NumUsers == 2
MaxTime == 8
MaxMessageLen == 1
MaxQueryLen == 2

\* self.spam_cooldown
spam_cooldown == 8

Users == 1 .. NumUsers

StringsOver(alphabet, n) == UNION { [ 1 .. m -> alphabet ] : m \in 0 .. n }

\* the characters of the texts given to transliterate
TextAlphabet ==
    { " ", ",", "emdash", "cy_yeru", "cy_short_i", "CY_EN", "cy_ie_breve",
      "cy_rounded_ve", "V", "C_CED" }

\* the characters of the words given to transliterate_word
RuWordAlphabet ==
    { "cy_i", "cy_short_i", "cy_yeru", "cy_soft", "cy_en", "cy_a",
      "CY_YERU", "V", "7" }

CvWordAlphabet ==
    { "CY_EN", "CY_TSE", "CY_YA", "CY_SOFT", "cy_en", "cy_ya", "V", "C_CED", "7" }

\* 'ый' * RecursionLimit
DeepWord == [ k \in 1 .. 2 * RecursionLimit |-> IF k % 2 = 1 THEN "cy_yeru" ELSE "cy_short_i" ]

WordInputs(l) ==
    IF l = "russian"
    THEN StringsOver(RuWordAlphabet, MaxWordLen) \cup { DeepWord }
    ELSE StringsOver(CvWordAlphabet, MaxWordLen)

\* the characters of the plain messages sent to the bot
MessageAlphabet == { "cy_a", "cy_ie_breve", "V" }

StartCommand == << "/", "s", "t", "a", "r", "t" >>
RussianCommand == << "/", "r", "u", "s", "s", "i", "a", "n" >>
ChuvashCommand == << "/", "c", "h", "u", "v", "a", "s", "h" >>
LanguageCommand == << "/", "l", "a", "n", "g", "u", "a", "g", "e" >>

\* message['text'] of the updates: the commands, a command with an argument,
\* a word that starts with '/' and is no command, a word the two variants
\* transliterate differently, and plain texts
MessageTexts ==
    { StartCommand, RussianCommand, ChuvashCommand, LanguageCommand,
      ChuvashCommand \o << " ", "cy_a" >>, << "/", "cy_a" >>,
      << "cy_a", "cy_ie_breve" >> }
        \cup (StringsOver(MessageAlphabet, MaxMessageLen) \ { << >> })

\* the characters of the inline queries
QueryAlphabet == { " ", "cy_a", "cy_ie_breve" }

\* inline_query['query'] of the updates
InlineQueries == StringsOver(QueryAlphabet, MaxQueryLen) \cup { << "V" >> }

\* the readings of time.time(): the first and the last second of every
\* cooldown that began at 0
ClockReadings == { t \in 0 .. MaxTime : t % spam_cooldown \in { 0, spam_cooldown - 1 } }

MaxRuleLen == 4
NumCalls == 2
MaxCallLen == 2

\* the simultaneous calls
Calls == 1 .. NumCalls

\* the characters of their texts
CallAlphabet == { " ", "cy_yeru", "V" }

\* no simultaneous calls in progress
ConcIdle ==
    /\ calls = << >>
    /\ outputs = << >>
    /\ attrs = << >>
    /\ requests = << >>

TextIdle ==
    /\ text = << >>
    /\ tokens = << >>
    /\ idx = 0
    /\ output = << >>
    /\ pc = "idle"

WordIdle ==
    /\ word = << >>
    /\ stack = << >>
    /\ letters = << >>
    /\ i = 0
    /\ result = << >>
    /\ ret = << >>
    /\ wpc = "idle"
    /\ processed_word = << >>
    /\ iotated_word = << >>

\* TelegramBot.__init__: both dictionaries empty ("none", -1: no entry)
BotInit ==
    /\ user_language = [ u \in Users |-> "none" ]
    /\ user_last_message = [ u \in Users |-> -1 ]
    /\ now = 0
    /\ reply = [ kind |-> "none" ]
    /\ api_calls = << >>

----------------------------------------------------------------------------
(* transliterate(text), token by token *)

Init ==
    /\ lang \in Langs
    /\ exc = "none"
    /\ text \in StringsOver(TextAlphabet, MaxTextLen)
    /\ tokens = << >>
    /\ idx = 0
    /\ output = << >>
    /\ pc = "call"
    /\ WordIdle
    /\ BotInit
    /\ ConcIdle

\* if not text: return text; tokens = re.split(...); output = ''
Call ==
    /\ pc = "call"
    /\ IF text = << >>
       THEN /\ output' = text
            /\ pc' = "done"
            /\ UNCHANGED <<tokens, idx>>
       ELSE /\ tokens' = re_split(text)
            /\ output' = << >>
            /\ idx' = 1
            /\ pc' = "loop"
    /\ UNCHANGED concVars
    /\ UNCHANGED <<lang, exc, text, wordVars, botVars>>

\* one pass of: for token in tokens
LoopStep ==
    /\ pc = "loop"
    /\ idx <= Len(tokens)
    /\ LET t == TokenOutput(lang, tokens[idx])
       IN  IF t.exc # "none"
           THEN /\ exc' = t.exc
                /\ pc' = "raised"
                /\ UNCHANGED <<output, idx>>
           ELSE /\ output' = output \o t.ret
                /\ idx' = idx + 1
                /\ UNCHANGED <<exc, pc>>
    /\ UNCHANGED concVars
    /\ UNCHANGED <<lang, text, tokens, wordVars, botVars>>

\* return output
Return ==
    /\ pc = "loop"
    /\ idx > Len(tokens)
    /\ pc' = "done"
    /\ UNCHANGED concVars
    /\ UNCHANGED <<lang, exc, text, tokens, idx, output, wordVars, botVars>>

Next == Call \/ LoopStep \/ Return

Spec == Init /\ [][Next]_vars

----------------------------------------------------------------------------
(* transliterate_word(word), step by step *)

InitWord ==
    /\ lang \in Langs
    /\ exc = "none"
    /\ TextIdle
    /\ word \in WordInputs(lang)
    /\ stack = << Len(word) >>
    /\ letters = << >>
    /\ i = 0
    /\ result = << >>
    /\ ret = << >>
    /\ wpc = "enter"
    /\ processed_word = << >>
    /\ iotated_word = << >>
    /\ BotInit
    /\ ConcIdle

\* the word of the innermost active call
TopWord == SubSeq(word, 1, stack[Len(stack)])

\* RussianTransliterator.transliterate_word up to the scan loop: the empty
\* word returns, a word ending in 'ый' calls itself on base, any other word
\* starts the loop
RuEnter ==
    /\ lang = "russian"
    /\ wpc = "enter"
    /\ IF TopWord = << >>
       THEN /\ ret' = TopWord
            /\ wpc' = "return"
            /\ UNCHANGED <<exc, stack, letters, i, result>>
       ELSE IF EndsWithYj(TopWord)
       THEN IF Len(stack) >= RecursionLimit
            THEN /\ exc' = "RecursionError"
                 /\ wpc' = "raised"
                 /\ UNCHANGED <<stack, letters, i, result, ret>>
            ELSE /\ stack' = Append(stack, Len(SuffixBase(TopWord)))
                 /\ UNCHANGED <<exc, letters, i, result, ret, wpc>>
       ELSE /\ letters' = lower(TopWord)
            /\ result' = << >>
            /\ i' = 0
            /\ wpc' = "scan"
            /\ UNCHANGED <<exc, stack, ret>>
    /\ UNCHANGED concVars
    /\ UNCHANGED <<lang, textVars, word, processed_word, iotated_word, botVars>>

\* one pass of: while i < len(letters)
RuScanStep ==
    /\ lang = "russian"
    /\ wpc = "scan"
    /\ i < Len(letters)
    /\ LET s == RuStep(letters, i, result)
       IN  IF s.exc # "none"
           THEN /\ exc' = s.exc
                /\ wpc' = "raised"
                /\ UNCHANGED <<i, result>>
           ELSE /\ i' = s.i
                /\ result' = s.result
                /\ UNCHANGED <<exc, wpc>>
    /\ UNCHANGED concVars
    /\ UNCHANGED <<lang, textVars, word, stack, letters, ret, processed_word,
                   iotated_word, botVars>>

\* after the loop: join, capitalize, return
RuFinish ==
    /\ lang = "russian"
    /\ wpc = "scan"
    /\ i >= Len(letters)
    /\ ret' = PreserveCapitalization(TopWord, join(result))
    /\ wpc' = "return"
    /\ UNCHANGED concVars
    /\ UNCHANGED <<lang, exc, textVars, word, stack, letters, i, result,
                   processed_word, iotated_word, botVars>>

\* a call returns: to the caller of the outermost call, or to the call that
\* handed it base, which returns transliterated_base + 'y'
RuReturn ==
    /\ lang = "russian"
    /\ wpc = "return"
    /\ IF Len(stack) = 1
       THEN /\ wpc' = "done"
            /\ UNCHANGED <<stack, ret>>
       ELSE /\ stack' = SubSeq(stack, 1, Len(stack) - 1)
            /\ ret' = ret \o <<"y">>
            /\ UNCHANGED wpc
    /\ UNCHANGED concVars
    /\ UNCHANGED <<lang, exc, textVars, word, letters, i, result, processed_word,
                   iotated_word, botVars>>

\* ChuvashTransliterator.transliterate_word, step 1
CvEnter ==
    /\ lang = "chuvash"
    /\ wpc = "enter"
    /\ IF word = << >>
       THEN /\ ret' = word
            /\ wpc' = "done"
            /\ UNCHANGED processed_word
       ELSE /\ processed_word' = process_soft_sign(word)
            /\ wpc' = "iotation"
            /\ UNCHANGED ret
    /\ UNCHANGED concVars
    /\ UNCHANGED <<lang, exc, textVars, word, stack, letters, i, result,
                   iotated_word, botVars>>

\* step 2
CvIotation ==
    /\ lang = "chuvash"
    /\ wpc = "iotation"
    /\ iotated_word' = handle_iotation(processed_word)
    /\ wpc' = "map"
    /\ UNCHANGED concVars
    /\ UNCHANGED <<lang, exc, textVars, word, stack, letters, i, result, ret,
                   processed_word, botVars>>

\* step 3
CvMapStep ==
    /\ lang = "chuvash"
    /\ wpc = "map"
    /\ ret' = join(CvMapUnits(iotated_word))
    /\ wpc' = "done"
    /\ UNCHANGED concVars
    /\ UNCHANGED <<lang, exc, textVars, word, stack, letters, i, result,
                   processed_word, iotated_word, botVars>>

NextWord ==
    RuEnter \/ RuScanStep \/ RuFinish \/ RuReturn \/ CvEnter \/ CvIotation \/ CvMapStep

SpecWord == InitWord /\ [][NextWord]_vars

----------------------------------------------------------------------------
(* RussianTransliterator.transliterate_word on lower-case words over the   *)
(* letters its context rules name                                          *)

\* a consonant, 'й', the two signs, the ten vowels and a character that is
\* not Cyrillic
RuleAlphabet ==
    { "cy_en", "cy_short_i", "cy_soft", "cy_hard", "cy_a", "cy_ie", "cy_io",
      "cy_i", "cy_o", "cy_u", "cy_yeru", "cy_e", "cy_yu", "cy_ya", "7" }

InitRule ==
    /\ lang = "russian"
    /\ exc = "none"
    /\ TextIdle
    /\ word \in StringsOver(RuleAlphabet, MaxRuleLen)
    /\ stack = << Len(word) >>
    /\ letters = << >>
    /\ i = 0
    /\ result = << >>
    /\ ret = << >>
    /\ wpc = "enter"
    /\ processed_word = << >>
    /\ iotated_word = << >>
    /\ BotInit
    /\ ConcIdle

NextRule == RuEnter \/ RuScanStep \/ RuFinish \/ RuReturn

SpecRule == InitRule /\ [][NextRule]_vars

----------------------------------------------------------------------------
(* ChuvashTransliterator.transliterate_word on words over the letters its  *)
(* soft-sign and iotation stages name                                      *)

\* a consonant and a soft sign of either case, the hard sign, a vowel, a
\* Chuvash letter, iotated letters of either case and a character that is
\* not Cyrillic
CvRuleAlphabet ==
    { "cy_en", "CY_EN", "cy_soft", "CY_SOFT", "cy_hard", "cy_a", "cy_ie_breve",
      "cy_ie", "CY_IE", "cy_io", "cy_yu", "cy_ya", "CY_YA", "7" }

InitCvRule ==
    /\ lang = "chuvash"
    /\ exc = "none"
    /\ TextIdle
    /\ word \in StringsOver(CvRuleAlphabet, MaxRuleLen)
    /\ stack = << Len(word) >>
    /\ letters = << >>
    /\ i = 0
    /\ result = << >>
    /\ ret = << >>
    /\ wpc = "enter"
    /\ processed_word = << >>
    /\ iotated_word = << >>
    /\ BotInit
    /\ ConcIdle

NextCvRule == CvEnter \/ CvIotation \/ CvMapStep

SpecCvRule == InitCvRule /\ [][NextCvRule]_vars

----------------------------------------------------------------------------
(* Several calls of transliterate(text) at once on one instance: the steps *)
(* of the calls interleave in any order                                    *)

\* self.map, self.vowels, self.soft_signs and the letters of
\* self.consonants_pattern, as __init__ leaves them
InstanceAttrs(l) ==
    IF l = "russian"
    THEN [ map |-> RuMap, vowels |-> vowels, soft_signs |-> soft_signs,
           consonants |-> { c \in CyrLower : consonants_pattern(c) } ]
    ELSE [ map |-> CvMap ]

\* where a call keeps its output, were output an attribute of the instance:
\* one cell for all calls
OutputCell_OnInstance(c) == 1

\* where a call keeps its output: output is a local variable, one per call
OutputCell(c) == c

InitConc ==
    /\ lang \in Langs
    /\ exc = "none"
    /\ TextIdle
    /\ WordIdle
    /\ BotInit
    /\ calls \in [ Calls -> { [ text |-> t, tokens |-> << >>, idx |-> 0, pc |-> "call",
                                  ret |-> << >> ] :
                                t \in StringsOver(CallAlphabet, MaxCallLen) } ]
    /\ outputs = [ c \in Calls |-> << >> ]
    /\ attrs = InstanceAttrs(lang)
    /\ requests = << >>

\* call c: if not text: return text; tokens = re.split(...); output = ''
ConcCall(c) ==
    /\ calls[c].pc = "call"
    /\ IF calls[c].text = << >>
       THEN /\ calls' = [calls EXCEPT ![c].pc = "done", ![c].ret = calls[c].text]
            /\ UNCHANGED outputs
       ELSE /\ calls' = [calls EXCEPT ![c].tokens = re_split(calls[c].text),
                                      ![c].idx = 1,
                                      ![c].pc = "loop"]
            /\ outputs' = [outputs EXCEPT ![OutputCell(c)] = << >>]
    /\ UNCHANGED <<lang, exc, textVars, wordVars, botVars, attrs, requests>>

\* call c: one pass of the for loop
ConcLoopStep(c) ==
    /\ calls[c].pc = "loop"
    /\ calls[c].idx <= Len(calls[c].tokens)
    /\ LET t == TokenOutput(lang, calls[c].tokens[calls[c].idx])
       IN  IF t.exc # "none"
           THEN /\ calls' = [calls EXCEPT ![c].pc = "raised"]
                /\ UNCHANGED outputs
           ELSE /\ calls' = [calls EXCEPT ![c].idx = calls[c].idx + 1]
                /\ outputs' = [outputs EXCEPT
                                 ![OutputCell(c)] = outputs[OutputCell(c)] \o t.ret]
    /\ UNCHANGED <<lang, exc, textVars, wordVars, botVars, attrs, requests>>

\* call c: return output
ConcReturn(c) ==
    /\ calls[c].pc = "loop"
    /\ calls[c].idx > Len(calls[c].tokens)
    /\ calls' = [calls EXCEPT ![c].pc = "done", ![c].ret = outputs[OutputCell(c)]]
    /\ UNCHANGED <<lang, exc, textVars, wordVars, botVars, outputs, attrs, requests>>

NextConc ==
    \/ \E c \in Calls : ConcCall(c)
    \/ \E c \in Calls : ConcLoopStep(c)
    \/ \E c \in Calls : ConcReturn(c)

SpecConc == InitConc /\ [][NextConc]_vars

----------------------------------------------------------------------------
(* TelegramBot.handle_update, one update at a time *)

\* re.search(r'[а-яёӑӳҫ]', text, re.IGNORECASE): handle_text_message's test
\* before the Chuvash transliterator is called
CallerCvSearch(s) ==
    SearchIgnoreCase(s, CyrLower \cup { "cy_io" }
                            \cup { "cy_a_breve", "cy_u_dacute", "cy_es_desc" })

\* re.search(r'[а-яё]', text, re.IGNORECASE): the test before the Russian one
CallerRuSearch(s) == SearchIgnoreCase(s, CyrLower \cup { "cy_io" })

\* message['text'].split()[0] of a text that starts with '/'
RECURSIVE FirstWord(_)
FirstWord(s) ==
    IF s = << >> \/ Head(s) \in Whitespace THEN << >>
    ELSE << Head(s) >> \o FirstWord(Tail(s))

\* self.user_language.get with 'chuvash' as the default
UserLang_DefaultChuvash(u) == IF user_language[u] = "none" THEN "chuvash" ELSE user_language[u]

\* self.user_language.get(user_id, 'russian')
UserLang(u) == IF user_language[u] = "none" THEN "russian" ELSE user_language[u]

\* check_spam_limit with a cooldown one second short
SpamCheckPasses_OneShort(u) ==
    ~ (user_last_message[u] # -1 /\ now - user_last_message[u] < spam_cooldown - 1)

\* check_spam_limit(user_id) returns True
SpamCheckPasses(u) ==
    ~ (user_last_message[u] # -1 /\ now - user_last_message[u] < spam_cooldown)

\* str.strip(): leading and trailing whitespace removed
RECURSIVE lstrip(_)
lstrip(s) == IF s # << >> /\ Head(s) \in Whitespace THEN lstrip(Tail(s)) ELSE s

RECURSIVE rstrip(_)
rstrip(s) ==
    IF s # << >> /\ s[Len(s)] \in Whitespace THEN rstrip(SubSeq(s, 1, Len(s) - 1)) ELSE s

strip(s) == rstrip(lstrip(s))

\* the texts the handlers hand to an engine
HandlerTexts == MessageTexts \cup { strip(query) : query \in InlineQueries }

\* self.russian_transliterator.transliterate(text) and
\* self.chuvash_transliterator.transliterate(text), for each of those texts
EngineResult == [ l \in Langs, s \in HandlerTexts |-> Transliterate(l, s) ]

InitBot ==
    /\ lang = "russian"
    /\ exc = "none"
    /\ TextIdle
    /\ WordIdle
    /\ BotInit
    /\ ConcIdle

\* send_message that posts nothing
send_message_Silent(called) == called

\* self.send_message(...): one request to sendMessage; its own except clause
\* keeps every error of the request inside it
send_message(called) == Append(called, "sendMessage")

\* self.answer_inline_query(...): one request to answerInlineQuery, likewise
answer_inline_query(called) == Append(called, "answerInlineQuery")

\* time passes between updates
Tick ==
    /\ now' \in { t \in ClockReadings : t > now }
    /\ UNCHANGED concVars
    /\ UNCHANGED <<lang, exc, textVars, wordVars, user_language, user_last_message, reply,
                   api_calls>>

\* handle_update of a message whose text is '/start ...'
HandleStart(u, msg) ==
    /\ Head(msg) = "/"
    /\ FirstWord(msg) = StartCommand
    /\ user_language' = [user_language EXCEPT ![u] = "russian"]
    /\ reply' = [ kind |-> "welcome", user |-> u ]
    /\ api_calls' = send_message(<< >>)
    /\ UNCHANGED concVars
    /\ UNCHANGED <<lang, exc, textVars, wordVars, user_last_message, now>>

\* handle_update of '/russian', '/chuvash' or '/language': handle_language_command
HandleLanguage(u, msg) ==
    /\ Head(msg) = "/"
    /\ FirstWord(msg) \in { RussianCommand, ChuvashCommand, LanguageCommand }
    /\ LET command == FirstWord(msg)
       IN  IF command = RussianCommand
           THEN /\ user_language' = [user_language EXCEPT ![u] = "russian"]
                /\ reply' = [ kind |-> "selected", user |-> u, lang |-> "russian" ]
           ELSE IF command = ChuvashCommand
           THEN /\ user_language' = [user_language EXCEPT ![u] = "chuvash"]
                /\ reply' = [ kind |-> "selected", user |-> u, lang |-> "chuvash" ]
           ELSE /\ reply' = [ kind |-> "current", user |-> u, lang |-> UserLang(u) ]
                /\ UNCHANGED user_language
    /\ api_calls' = send_message(<< >>)
    /\ UNCHANGED concVars
    /\ UNCHANGED <<lang, exc, textVars, wordVars, user_last_message, now>>

\* handle_update of any other text: handle_text_message
HandleText(u, msg) ==
    /\ ~ (Head(msg) = "/" /\ FirstWord(msg) \in
            { StartCommand, RussianCommand, ChuvashCommand, LanguageCommand })
    /\ IF ~ SpamCheckPasses(u)
       THEN /\ reply' = [ kind |-> "wait", user |-> u, text |-> msg ]
            /\ api_calls' = send_message(<< >>)
            /\ UNCHANGED user_last_message
       ELSE /\ user_last_message' = [user_last_message EXCEPT ![u] = now]
            /\ LET user_lang == UserLang(u)
                   found == IF user_lang = "russian" THEN CallerRuSearch(msg)
                            ELSE CallerCvSearch(msg)
                   t == EngineResult[user_lang, msg]
               IN  IF ~ found
                   THEN /\ reply' = [ kind |-> "no_letters", user |-> u, text |-> msg,
                                      lang |-> user_lang ]
                        /\ api_calls' = send_message(<< >>)
                   ELSE IF t.exc # "none"
                   THEN /\ reply' = [ kind |-> "error", user |-> u, text |-> msg,
                                      lang |-> user_lang ]
                        /\ api_calls' = send_message(<< >>)
                   ELSE /\ reply' = [ kind |-> "transliteration", user |-> u, text |-> msg,
                                      lang |-> user_lang, transliterated |-> t.ret ]
                        /\ api_calls' = send_message(<< >>)
    /\ UNCHANGED concVars
    /\ UNCHANGED <<lang, exc, textVars, wordVars, user_language, now>>

\* re.search(r'[ӑӳҫӗ]', query_text, re.IGNORECASE)
has_chuvash(query_text) == SearchIgnoreCase(query_text, ChuvashLower)

\* re.search(r'[а-яё]', query_text, re.IGNORECASE)
has_cyrillic(query_text) == SearchIgnoreCase(query_text, CyrLower \cup { "cy_io" })

\* one entry of results: which article it is and its message_text; an engine
\* call that raises is caught and appends nothing
InlineArticle(name, l, query_text) ==
    IF EngineResult[l, query_text].exc = "none"
    THEN << [ id |-> name, message_text |-> EngineResult[l, query_text].ret ] >>
    ELSE << >>

\* the Chuvash block: if has_chuvash or user_lang == 'chuvash'
InlineChuvash(user_lang, query_text) ==
    IF has_chuvash(query_text) \/ user_lang = "chuvash"
    THEN InlineArticle("chuvash", "chuvash", query_text)
    ELSE << >>

\* the Russian block: if has_cyrillic and not has_chuvash
InlineRussian(query_text) ==
    IF has_cyrillic(query_text) /\ ~ has_chuvash(query_text)
    THEN InlineArticle("russian", "russian", query_text)
    ELSE << >>

\* the block that shows both options: if has_cyrillic and has_chuvash
InlineAlternative(query_text) ==
    IF has_cyrillic(query_text) /\ has_chuvash(query_text)
    THEN InlineArticle("russian_alt", "russian", query_text)
    ELSE << >>

\* if not results: the error article
InlineOrError(results) ==
    IF results = << >>
    THEN << [ id |-> "no_cyrillic", message_text |-> << >> ] >>
    ELSE results

\* results, with the block that shows both options left out
InlineResults_NoAlternative(user_lang, query_text) ==
    InlineOrError(InlineChuvash(user_lang, query_text) \o InlineRussian(query_text))

\* results, with the stored language not looked at
InlineResults_DetectionOnly(user_lang, query_text) ==
    InlineOrError(InlineChuvash("auto", query_text) \o InlineRussian(query_text)
                    \o InlineAlternative(query_text))

\* handle_inline_query: the list results built for a non-empty query_text
InlineResults(user_lang, query_text) ==
    InlineOrError(InlineChuvash(user_lang, query_text) \o InlineRussian(query_text)
                    \o InlineAlternative(query_text))

\* handle_inline_query from the test of query_text on: the answer
InlineAnswer(user_lang, query_text) ==
    IF query_text = << >>
    THEN << [ id |-> "help", message_text |-> << >> ] >>
    ELSE InlineResults(user_lang, query_text)

\* self.user_language.get(user_id, 'auto')
InlineUserLang(u) == IF user_language[u] = "none" THEN "auto" ELSE user_language[u]

\* handle_update of an inline query: handle_inline_query
HandleInline(u, query) ==
    /\ reply' = [ kind |-> "inline_answer", user |-> u, query |-> query,
                  results |-> InlineAnswer(InlineUserLang(u), strip(query)) ]
    /\ api_calls' = answer_inline_query(<< >>)
    /\ UNCHANGED concVars
    /\ UNCHANGED <<lang, exc, textVars, wordVars, user_language, user_last_message, now>>

\* handle_update of a message without text (a photo, a sticker)
HandleOther(u) ==
    /\ reply' = [ kind |-> "not_text", user |-> u ]
    /\ api_calls' = send_message(<< >>)
    /\ UNCHANGED concVars
    /\ UNCHANGED <<lang, exc, textVars, wordVars, user_language, user_last_message, now>>

NextBot ==
    \/ Tick
    \/ \E u \in Users : HandleOther(u)
    \/ \E u \in Users, query \in InlineQueries : HandleInline(u, query)
    \/ \E u \in Users, msg \in MessageTexts : HandleStart(u, msg)
    \/ \E u \in Users, msg \in MessageTexts : HandleLanguage(u, msg)
    \/ \E u \in Users, msg \in MessageTexts : HandleText(u, msg)

SpecBot == InitBot /\ [][NextBot]_vars

----------------------------------------------------------------------------
(* Properties of transliterate(text), checked under Spec *)

\* C1: once the text has been split, the tokens concatenated in their order
\* are exactly the text, in the Russian and in the Chuvash transliterate
LosslessTokenization == pc # "call" => join(tokens) = text

\* a Chuvash call whose text starts and ends with a separator run: five
\* tokens, the first and the last of them empty
LosslessTokenizationWitness ==
    /\ lang = "chuvash"
    /\ pc = "done"
    /\ Len(tokens) = 5
    /\ tokens[1] = << >>
    /\ tokens[3] # << >>

\* the letters the claims call the source alphabet of a variant: basic
\* Cyrillic, and for Chuvash the four Chuvash letters as well, of either case
SourceAlphabet(l) ==
    CyrLower \cup CyrUpper \cup { "cy_io", "CY_IO" }
        \cup (IF l = "chuvash"
              THEN ChuvashLower \cup { ToUpper(c) : c \in ChuvashLower }
              ELSE { })

\* C2: a text without any letter of the variant's source alphabet is
\* returned as it is
Passthrough ==
    (pc = "done" /\ \A k \in DOMAIN text : text[k] \notin SourceAlphabet(lang))
        => output = text

\* C8: the em-dash is a separator: no Word token (the odd places of the
\* token list) holds one, so words joined by an em-dash are distinct tokens
EmDashSeparates ==
    pc # "call" =>
        \A k \in DOMAIN tokens : k % 2 = 1 => "emdash" \notin Range(tokens[k])

\* s is a prefix of t
IsPrefix(s, t) == Len(s) <= Len(t) /\ SubSeq(t, 1, Len(s)) = s

\* C9: a pass of the loop over a Separator token (an even place) or over a
\* Word token in which the script detector finds nothing appends the token
\* itself to the output; every pass appends to the output what it produces
\* and moves on to the next token, so the pieces stand in the tokens' order
UntouchedSpans ==
    [][ (pc = "loop" /\ idx <= Len(tokens) /\ pc' = "loop") =>
            /\ idx' = idx + 1
            /\ IsPrefix(output, output')
            /\ (idx % 2 = 0 \/ ~ TokenSearch(lang, tokens[idx]))
                  => output' = output \o tokens[idx] ]_vars

\* the loop has passed, in this order, a Word token that was transliterated,
\* a Separator token and a Word token the detector rejected
UntouchedSpansWitness ==
    /\ pc = "done"
    /\ Len(tokens) = 3
    /\ TokenSearch(lang, tokens[1])
    /\ tokens[2] # << >>
    /\ tokens[3] # << >>
    /\ ~ TokenSearch(lang, tokens[3])
    /\ output # text

----------------------------------------------------------------------------
(* Properties of transliterate_word(word), checked under SpecWord *)

\* C3: no call raises
NeverRaises == exc = "none" /\ wpc # "raised"

\* what is left of the Russian call to do, as a natural number
Measure ==
    IF wpc = "enter" THEN 2 * Len(TopWord) + Len(stack) + 3
    ELSE IF wpc = "scan" THEN (Len(letters) - i) + Len(stack) + 1
    ELSE IF wpc = "return" THEN Len(stack)
    ELSE 0

\* C4: every step of the Russian transliterate_word brings the call nearer
\* to its end (a natural number decreases); a recursive call is on a word
\* exactly two characters shorter and the calls in progress beyond the first
\* are at most half the word's length; a pass of the scan loop moves the
\* index on by 1 or by 2 and never past the end of the word
RussianTermination ==
    [][ lang = "russian" =>
          /\ Measure \in Nat /\ Measure' \in Nat /\ Measure' < Measure
          /\ Len(stack') > Len(stack) =>
                /\ Len(stack') = Len(stack) + 1
                /\ stack'[Len(stack')] = stack[Len(stack)] - 2
          /\ 2 * (Len(stack') - 1) <= Len(word)
          /\ (wpc = "scan" /\ wpc' = "scan") =>
                /\ i' \in { i + 1, i + 2 }
                /\ i' <= Len(letters) ]_vars

\* a call made by the suffix rule has scanned its base, a word of two
\* characters, to the end
RussianTerminationWitness ==
    /\ lang = "russian"
    /\ wpc = "scan"
    /\ Len(stack) = 2
    /\ Len(word) = 4
    /\ i = 2

\* C5: a Russian word whose first character is uppercase comes back with
\* its first character capitalized and every other character lowercase
RussianCasePolicy ==
    (lang = "russian" /\ wpc = "done" /\ word # << >> /\ isupper(word[1]))
        => ret = capitalize(ret)

\* w is a non-empty word of uppercase letters of the Chuvash source alphabet
AllUpperSourceWord(w) ==
    /\ w # << >>
    /\ \A k \in DOMAIN w : w[k] \in SourceAlphabet("chuvash") \cap UpperChars

\* C6: an all-uppercase Chuvash word comes back entirely uppercase
ChuvashAllCaps ==
    (lang = "chuvash" /\ wpc = "done" /\ AllUpperSourceWord(word))
        => \A k \in DOMAIN ret : isupper(ret[k])

\* the capitalized two-letter forms: of e, io, yu, ya that do not follow a
\* consonant, and of tse
CapitalizedDigraphs ==
    { <<"J", "e">>, <<"J", "o">>, <<"J", "u">>, <<"J", "a">>, <<"T", "s">> }

\* w holds a letter that is written as a two-letter form
HasDigraphLetter(w) ==
    \E p \in DOMAIN w :
        \/ w[p] = "CY_TSE"
        \/ /\ w[p] \in { "CY_IE", "CY_IO", "CY_YU", "CY_YA" }
           /\ ~ (p > 1 /\ is_consonant(w[p - 1]))

\* C6 as amended: in the result of an all-uppercase Chuvash word every
\* character is uppercase except the second letter of a capitalized
\* two-letter form (Je, Jo, Ju, Ja, Ts); the result is entirely uppercase
\* exactly when the word, soft signs processed, holds no letter written so
ChuvashCapitalizedForms ==
    (lang = "chuvash" /\ wpc = "done" /\ AllUpperSourceWord(word)) =>
        /\ \A k \in DOMAIN ret :
              ~ isupper(ret[k]) =>
                  k > 1 /\ << ret[k - 1], ret[k] >> \in CapitalizedDigraphs
        /\ (\A k \in DOMAIN ret : isupper(ret[k])) <=> ~ HasDigraphLetter(processed_word)

\* all-uppercase words have come back: one with a capitalized two-letter
\* form after a doubled consonant, one entirely uppercase
ChuvashCapitalizedFormsWitness ==
    /\ lang = "chuvash"
    /\ wpc = "done"
    /\ AllUpperSourceWord(word)
    /\ Len(word) = 4
    /\ processed_word # word
    /\ \E k \in DOMAIN ret : k > 1 /\ << ret[k - 1], ret[k] >> = <<"J", "a">>

\* the characters a variant neither maps nor treats by a rule
Unmapped(l, c) ==
    IF l = "russian"
    THEN ToLower(c) \notin DOMAIN RuMap \cup soft_signs
    ELSE c \notin DOMAIN CvMap \cup IotatedLetters

\* the length of the output the Russian scan of ls has emitted when it comes
\* to the character at place p (-1 when a pass takes that character as its
\* second one)
RECURSIVE RuEmittedBefore(_, _, _, _)
RuEmittedBefore(ls, p, k, res) ==
    IF k = p - 1 THEN Len(join(res))
    ELSE IF k > p - 1 THEN -1
    ELSE LET s == RuStep(ls, k, res)
         IN  RuEmittedBefore(ls, p, s.i, s.result)

\* the place in the result that corresponds to place p of the word: right
\* after the output of the characters before p
OutputOffset(p) ==
    IF lang = "russian" THEN RuEmittedBefore(letters, p, 0, << >>)
    ELSE Len(CvTransliterateWord(SubSeq(word, 1, p - 1)))

\* C7: an unmapped character of the word stands in the result, identical, at
\* the corresponding place
UnmappedIdentical ==
    wpc = "done" =>
        \A p \in DOMAIN word :
            Unmapped(lang, word[p]) =>
                /\ OutputOffset(p) \in 0 .. Len(ret) - 1
                /\ ret[OutputOffset(p) + 1] = word[p]

\* C7 as amended: in a Chuvash word it is identical; in a Russian word it is
\* the character's lowercase form, capitalized when it opens the result of
\* a word whose first character is uppercase
UnmappedCaseFolded ==
    wpc = "done" =>
        \A p \in DOMAIN word :
            Unmapped(lang, word[p]) =>
                /\ OutputOffset(p) \in 0 .. Len(ret) - 1
                /\ ret[OutputOffset(p) + 1] =
                      IF lang = "chuvash" THEN word[p]
                      ELSE IF OutputOffset(p) = 0 /\ isupper(word[1])
                           THEN ToUpper(ToLower(word[p]))
                           ELSE ToLower(word[p])

\* a Russian word with an uppercase Latin letter after its first character
\* has come back
UnmappedCaseFoldedWitness ==
    /\ lang = "russian"
    /\ wpc = "done"
    /\ Len(word) = 4
    /\ word[3] = "V"
    /\ word[1] = "cy_en"
    /\ ret[OutputOffset(3) + 1] = "v"

----------------------------------------------------------------------------
(* Properties of handle_text_message, checked under SpecBot *)

\* C10: handle_text_message answers a text with 'no letters' exactly when the
\* script detector of the user's language finds no letter in it; a text the
\* detector accepts goes to the engine
PreCheckAgreesWithDetector ==
    reply.kind \in { "no_letters", "transliteration", "error" } =>
        (reply.kind = "no_letters" <=> ~ TokenSearch(reply.lang, reply.text))

----------------------------------------------------------------------------
(* Properties of handle_inline_query, checked under SpecBot *)

\* s holds one of the four Chuvash letters, of either case
HoldsChuvashLetter(s) ==
    \E k \in DOMAIN s : s[k] \in SourceAlphabet("chuvash") \ SourceAlphabet("russian")

\* s holds a basic Cyrillic letter, of either case
HoldsCyrillicLetter(s) == \E k \in DOMAIN s : s[k] \in SourceAlphabet("russian")

\* C11: the answer to an inline query that holds a Chuvash letter and a basic
\* Cyrillic letter has exactly two results, whatever language is stored for
\* the user: first the Chuvash transliteration, then the Russian one as the
\* alternative
InlineMixedBothResults ==
    (reply.kind = "inline_answer"
        /\ HoldsChuvashLetter(reply.query) /\ HoldsCyrillicLetter(reply.query))
    => reply.results =
          << [ id |-> "chuvash",
               message_text |-> Transliterate("chuvash", strip(reply.query)).ret ],
             [ id |-> "russian_alt",
               message_text |-> Transliterate("russian", strip(reply.query)).ret ] >>

\* a user whose stored language is Russian has sent a mixed query and has
\* the two results, which differ
InlineMixedBothResultsWitness ==
    /\ reply.kind = "inline_answer"
    /\ user_language[reply.user] = "russian"
    /\ HoldsChuvashLetter(reply.query)
    /\ HoldsCyrillicLetter(reply.query)
    /\ Len(reply.results) = 2
    /\ reply.results[1].message_text # reply.results[2].message_text

\* C12: the answer to an inline query that holds basic Cyrillic letters and
\* no Chuvash letter is exactly one result, the Russian transliteration
InlineRussianOnly ==
    (reply.kind = "inline_answer"
        /\ HoldsCyrillicLetter(reply.query) /\ ~ HoldsChuvashLetter(reply.query))
    => reply.results =
          << [ id |-> "russian",
               message_text |-> Transliterate("russian", strip(reply.query)).ret ] >>

\* C12 as amended: when the answer to such a query is made, it ends with the
\* Russian transliteration; that is its only result unless chuvash is the
\* language stored for the user, and then the Chuvash transliteration of
\* the query comes before it
InlineRussianAfterPreference ==
    [][ (reply' # reply /\ reply'.kind = "inline_answer"
            /\ HoldsCyrillicLetter(reply'.query) /\ ~ HoldsChuvashLetter(reply'.query))
        => reply'.results =
              (IF user_language[reply'.user] = "chuvash"
               THEN << [ id |-> "chuvash",
                         message_text |->
                             Transliterate("chuvash", strip(reply'.query)).ret ] >>
               ELSE << >>)
              \o << [ id |-> "russian",
                      message_text |->
                          Transliterate("russian", strip(reply'.query)).ret ] >> ]_vars

\* a user who chose chuvash has sent a query of basic Cyrillic letters and
\* has the Chuvash result before the Russian one
InlineRussianAfterPreferenceWitness ==
    /\ reply.kind = "inline_answer"
    /\ user_language[reply.user] = "chuvash"
    /\ HoldsCyrillicLetter(reply.query)
    /\ ~ HoldsChuvashLetter(reply.query)
    /\ Len(reply.results) = 2
    /\ reply.results[1].id = "chuvash"
    /\ reply.results[2].id = "russian"

----------------------------------------------------------------------------
\* C13: transliterate never writes the attributes of the instance, and under
\* any interleaving of simultaneous calls on one instance each call returns
\* what it returns when run alone (so equal texts give equal results)
ConcurrentCallsIndependent ==
    /\ attrs = InstanceAttrs(lang)
    /\ \A c \in Calls :
         /\ calls[c].pc = "done" =>
              /\ Transliterate(lang, calls[c].text).exc = "none"
              /\ calls[c].ret = Transliterate(lang, calls[c].text).ret
         /\ calls[c].pc = "raised" => Transliterate(lang, calls[c].text).exc # "none"
    /\ \A c, d \in Calls :
         calls[c].pc = "done" /\ calls[d].pc = "done" /\ calls[c].text = calls[d].text
            => calls[c].ret = calls[d].ret

\* one call has returned a transliteration while another call, of a different
\* text, is in the middle of its loop
ConcurrentCallsIndependentWitness ==
    /\ calls # << >>
    /\ \E c, d \in Calls :
         /\ calls[c].pc = "done"
         /\ calls[c].ret # calls[c].text
         /\ calls[d].pc = "loop"
         /\ calls[d].idx = 2
         /\ outputs[OutputCell(d)] # << >>
         /\ calls[d].text # calls[c].text

----------------------------------------------------------------------------
\* the scan loop is at a letter: the next step is one pass of the loop
AtLetter == wpc = "scan" /\ i < Len(letters)

\* ch, prev and next_ch of the pass about to run
Current == letters[i + 1]
Previous == RuPrev(letters, i)
Following == RuNext(letters, i)

\* the pass appends units to result and advances by step
Emits(units, step) == result' = result \o units /\ i' = i + step

\* no sign, no 'й', no 'я', 'ё', 'ю', and no vowel right after a vowel
ContextFree(w) ==
    /\ \A k \in DOMAIN w :
         w[k] \in CyrLower \ (soft_signs \cup { "cy_short_i", "cy_ya", "cy_io", "cy_yu" })
    /\ \A k \in 2 .. Len(w) : ~ (w[k] \in vowels /\ w[k - 1] \in vowels)

\* the values of the mapping table for the letters of w, in order
MapValues(w) == join([ k \in DOMAIN w |-> RuMap[w[k]] ])

\* 'привет', 'privet', 'мама', 'mama'
Privet == << "cy_pe", "cy_er", "cy_i", "cy_ve", "cy_ie", "cy_te" >>
PrivetLatin == << "p", "r", "i", "v", "e", "t" >>
Mama == << "cy_em", "cy_a", "cy_em", "cy_a" >>
MamaLatin == << "m", "a", "m", "a" >>

\* C14: a lower-case Russian word with no sign, no 'й', no 'я', 'ё', 'ю' and
\* no vowel right after a vowel (so not ending in 'ый') is transliterated to
\* the mapping-table values of its letters in order; 'привет' gives 'privet'
\* and 'мама' gives 'mama'
ContextFreeLetterByLetter ==
    /\ wpc = "done" /\ ContextFree(word) =>
          /\ exc = "none"
          /\ ret = MapValues(word)
    /\ ContextFree(Privet) /\ RuTransliterateWord(Privet).ret = PrivetLatin
    /\ ContextFree(Mama) /\ RuTransliterateWord(Mama).ret = MamaLatin

\* a word of four letters holding 'у' and 'и', neither after a vowel, is done
ContextFreeLetterByLetterWitness ==
    /\ wpc = "done"
    /\ ContextFree(word)
    /\ Len(word) = 4
    /\ { "cy_u", "cy_i" } \subseteq Range(word)
    /\ ret = MapValues(word)

----------------------------------------------------------------------------
\* the copy of the previous consonant that 'ь' emits
Duplicate ==
    IF Current = "cy_soft" /\ consonants_pattern(Previous)
    THEN << RuMapGet(Previous) >>
    ELSE << >>

\* 'u', 'a', 'o', 'e' for 'ю', 'я', 'ё', 'е'
BaseVowel(c) ==
    IF c = "cy_yu" THEN <<"u">>
    ELSE IF c = "cy_ya" THEN <<"a">>
    ELSE IF c = "cy_io" THEN <<"o">>
    ELSE <<"e">>

\* what the sign at the current position emits after the duplicate, and how
\* far it advances, when the rule looks at the following letter
SignLooksAhead ==
    IF Following \in { "cy_a", "cy_e", "cy_yeru", "cy_o", "cy_u", "cy_i" }
    THEN /\ join(result') = join(result \o Duplicate) \o <<"i">> \o RuMap[Following]
         /\ i' = i + 2
    ELSE IF Following \in { "cy_yu", "cy_ya", "cy_io", "cy_ie" }
    THEN /\ join(result') = join(result \o Duplicate) \o <<"i">> \o BaseVowel(Following)
         /\ i' = i + 2
    ELSE /\ join(result') = join(result \o Duplicate)
         /\ i' = i + 1

\* C15 as stated: a sign with a previous character of any class followed by
\* one of 'а', 'э', 'ы', 'о', 'у', 'и' emits 'i' and the mapped vowel and
\* consumes both; followed by 'ю', 'я', 'ё', 'е' it emits 'i' and 'u', 'a',
\* 'o', 'e' and consumes both; otherwise it emits nothing further and
\* advances one position
SignThenVowelAnyPrevious ==
    [][ AtLetter /\ Current \in soft_signs /\ i > 0 => SignLooksAhead ]_vars

\* C15: a sign whose previous character is a consonant, followed by one of
\* 'а', 'э', 'ы', 'о', 'у', 'и', emits 'i' and the mapped vowel and consumes
\* both; followed by 'ю', 'я', 'ё', 'е' it emits 'i' and 'u', 'a', 'o', 'e'
\* and consumes both; otherwise it emits nothing further and advances one
\* position. A sign whose previous character is not a consonant emits 'i'
\* and advances one position whatever follows
SignThenVowelAfterConsonant ==
    [][ AtLetter /\ Current \in soft_signs =>
          IF i > 0 /\ consonants_pattern(Previous)
          THEN SignLooksAhead
          ELSE Emits(<< <<"i">> >>, 1) ]_vars

\* the scan has passed consonant, sign, 'ю' with 'i', 'u' emitted for the
\* last two
SignThenVowelAfterConsonantWitness ==
    /\ wpc = "scan"
    /\ i >= 3
    /\ letters[i] = "cy_yu"
    /\ letters[i - 1] \in soft_signs
    /\ consonants_pattern(letters[i - 2])
    /\ Len(result) >= 2
    /\ SubSeq(result, Len(result) - 1, Len(result)) = << <<"i">>, <<"u">> >>

----------------------------------------------------------------------------
\* the units a sign after a consonant emits for itself and the following letter
LookaheadUnits ==
    IF Following \in { "cy_a", "cy_e", "cy_yeru", "cy_o", "cy_u", "cy_i" }
    THEN << <<"i">> \o RuMap[Following] >>
    ELSE IF Following \in { "cy_yu", "cy_ya", "cy_io", "cy_ie" }
    THEN << <<"i">>, BaseVowel(Following) >>
    ELSE << >>

\* C16: 'ь' right after a consonant emits the mapped form of that consonant
\* again before anything else it emits; 'ъ' after a consonant emits no such
\* copy; a sign with no previous character emits 'i' and advances one position
ConsonantDuplication ==
    [][ AtLetter /\ Current \in soft_signs =>
          IF i = 0 THEN Emits(<< <<"i">> >>, 1)
          ELSE IF ~ consonants_pattern(Previous) THEN TRUE
          ELSE IF Current = "cy_soft"
          THEN result' = result \o << RuMap[Previous] >> \o LookaheadUnits
          ELSE result' = result \o LookaheadUnits ]_vars

\* the scan has passed a consonant and 'ь' with the consonant emitted twice
ConsonantDuplicationWitness ==
    /\ wpc = "scan"
    /\ i >= 2
    /\ letters[i] = "cy_soft"
    /\ consonants_pattern(letters[i - 1])
    /\ Len(result) >= 2
    /\ SubSeq(result, Len(result) - 1, Len(result))
          = << RuMap[letters[i - 1]], RuMap[letters[i - 1]] >>

----------------------------------------------------------------------------
\* C17: at 'й' after 'и' the last unit of the output is replaced by 'e' and
\* 'i' is emitted; that unit is the one appended by the pass that consumed
\* the 'и' (every pass that ends on 'и' appends a unit last, 'i' or 'ii');
\* at 'й' after anything else 'i' is emitted
ShortIAfterI ==
    [][ AtLetter =>
          /\ exc' = "none"
          /\ (i' >= 1 /\ letters[i'] = "cy_i") =>
                /\ Len(result') > Len(result)
                /\ SubSeq(result', 1, Len(result') - 1) \in { result, result \o Duplicate }
                /\ result'[Len(result')] \in { <<"i">>, <<"i", "i">> }
          /\ Current = "cy_short_i" =>
                IF Previous = "cy_i"
                THEN /\ result # << >>
                     /\ result' = SubSeq(result, 1, Len(result) - 1) \o << <<"e">>, <<"i">> >>
                     /\ i' = i + 1
                ELSE Emits(<< <<"i">> >>, 1) ]_vars

\* the scan has passed consonant, sign, 'и', 'й': the one unit emitted for
\* the sign and the 'и' has been replaced by 'e', and 'i' follows it
ShortIAfterIWitness ==
    /\ wpc = "scan"
    /\ i = 4
    /\ letters[4] = "cy_short_i"
    /\ letters[3] = "cy_i"
    /\ letters[2] = "cy_hard"
    /\ consonants_pattern(letters[1])
    /\ result = << RuMap[letters[1]], <<"e">>, <<"i">> >>

----------------------------------------------------------------------------
\* the pass appends the characters chars to the output and advances by step
EmitsChars(chars, step) == join(result') = join(result) \o chars /\ i' = i + step

\* 'и' followed by 'я', 'ё', 'ю': 'ia', 'io', 'iu', both letters consumed
IDigraphEmitted == EmitsChars(<<"i">> \o BaseVowel(Following), 2)

\* C18 as stated: 'и' before 'я', 'ё', 'ю' gives 'ia', 'io', 'iu' and both
\* letters are consumed; otherwise 'и' gives 'ii' exactly when the previous
\* letter is a vowel other than 'и' and the next letter is none of 'е', 'ё',
\* 'ю', 'я', and 'i' in all remaining cases
IDoubledUnlessIotatedFollows ==
    [][ AtLetter /\ Current = "cy_i" =>
          IF Following \in { "cy_ya", "cy_io", "cy_yu" } THEN IDigraphEmitted
          ELSE IF /\ Previous \in vowels \ { "cy_i" }
                  /\ Following \notin { "cy_ie", "cy_io", "cy_yu", "cy_ya" }
          THEN EmitsChars(<<"i", "i">>, 1)
          ELSE EmitsChars(<<"i">>, 1) ]_vars

\* C18: 'и' before 'я', 'ё', 'ю' gives 'ia', 'io', 'iu' and both letters are
\* consumed, whatever precedes; otherwise 'и' reached as the current letter
\* gives 'ii' exactly when the previous letter is a vowel other than 'и'
\* (also before 'е'), and 'i' in all remaining cases
IDoubledAfterVowel ==
    [][ AtLetter /\ Current = "cy_i" =>
          IF Following \in { "cy_ya", "cy_io", "cy_yu" } THEN IDigraphEmitted
          ELSE IF Previous \in vowels \ { "cy_i" }
          THEN EmitsChars(<<"i", "i">>, 1)
          ELSE EmitsChars(<<"i">>, 1) ]_vars

\* the scan has passed a vowel and 'и' with 'е' to come: 'ii' was emitted
IDoubledAfterVowelWitness ==
    /\ wpc = "scan"
    /\ i = 2
    /\ Len(letters) >= 3
    /\ letters[3] = "cy_ie"
    /\ letters[2] = "cy_i"
    /\ letters[1] \in vowels \ { "cy_i" }
    /\ result = << RuMap[letters[1]], <<"i", "i">> >>

----------------------------------------------------------------------------
\* the output of 'я', 'ё', 'ю' by the class of the previous letter
IotatedAfterConsonant == ("cy_ya" :> <<"a_uml">>) @@ ("cy_io" :> <<"e">>) @@ ("cy_yu" :> <<"u_uml">>)
IotatedAfterI == ("cy_ya" :> <<"i", "a">>) @@ ("cy_io" :> <<"i", "o">>) @@ ("cy_yu" :> <<"i", "u">>)
IotatedAfterVowel == ("cy_ya" :> <<"a">>) @@ ("cy_io" :> <<"e">>) @@ ("cy_yu" :> <<"u">>)
IotatedOtherwise == ("cy_ya" :> <<"e", "a">>) @@ ("cy_io" :> <<"e">>) @@ ("cy_yu" :> <<"e", "u">>)

\* C19: 'я', 'ё', 'ю' reached as the current letter give 'ä', 'e', 'ü' after
\* a consonant, 'ia', 'io', 'iu' after 'и', 'a', 'e', 'u' after any other
\* vowel, and 'ea', 'e', 'eu' otherwise (at the start of the word, after a
\* sign or after a character that is not Cyrillic)
IotatedByPrevious ==
    [][ AtLetter /\ Current \in { "cy_ya", "cy_io", "cy_yu" } =>
          IF Previous \in CyrLower \ (vowels \cup soft_signs)
          THEN EmitsChars(IotatedAfterConsonant[Current], 1)
          ELSE IF Previous = "cy_i" THEN EmitsChars(IotatedAfterI[Current], 1)
          ELSE IF Previous \in vowels THEN EmitsChars(IotatedAfterVowel[Current], 1)
          ELSE /\ i = 0 \/ Previous \in soft_signs \/ Previous \notin CyrLower
               /\ EmitsChars(IotatedOtherwise[Current], 1) ]_vars

\* the scan has passed 'и' (consumed by the sign before it) and 'я': 'ia' was
\* emitted for the 'я'
IotatedByPreviousWitness ==
    /\ wpc = "scan"
    /\ i = 4
    /\ letters[4] = "cy_ya"
    /\ letters[3] = "cy_i"
    /\ letters[2] \in soft_signs
    /\ result[Len(result)] = <<"i", "a">>
    /\ result[Len(result) - 1] = <<"i", "i">>

----------------------------------------------------------------------------
\* 'у' gives 'w' exactly after a vowel and 'u' otherwise; 'а' and 'о' give
\* 'wa' and 'wo' exactly after a vowel other than the same letter, 'и' and
\* 'е', and their mapped value otherwise
GlideRules ==
    /\ Current = "cy_u" =>
          IF Previous \in vowels THEN EmitsChars(<<"w">>, 1) ELSE EmitsChars(<<"u">>, 1)
    /\ Current \in { "cy_a", "cy_o" } =>
          IF Previous \in vowels \ { Current, "cy_i", "cy_ie" }
          THEN EmitsChars(<<"w">> \o RuMap[Current], 1)
          ELSE EmitsChars(RuMap[Current], 1)

\* in a sequence of a vowel of the set first, 'и' and 'а', the 'и' gives 'ii'
\* and the 'а' gives 'a'
IThenAAfter(first) ==
    /\ Current = "cy_i" /\ Previous \in first /\ Following = "cy_a" =>
          EmitsChars(<<"i", "i">>, 1)
    /\ Current = "cy_a" /\ Previous = "cy_i" /\ i >= 2 /\ letters[i - 1] \in first =>
          EmitsChars(<<"a">>, 1)

\* C20 as stated: the glide rules, and in every vowel, 'и', 'а' sequence the
\* 'и' is doubled to 'ii' and the 'а' is a plain 'a'
GlidePrecedenceAnyVowel ==
    [][ AtLetter => GlideRules /\ IThenAAfter(vowels) ]_vars

\* C20: 'у' gives 'w' exactly after a vowel and 'u' otherwise; 'а' and 'о'
\* give 'wa' and 'wo' exactly after a vowel other than the same letter, 'и'
\* and 'е'; in a sequence of a vowel other than 'и', then 'и', then 'а', the
\* 'и' is doubled to 'ii' and the 'а' is a plain 'a'
GlidePrecedence ==
    [][ AtLetter => GlideRules /\ IThenAAfter(vowels \ { "cy_i" }) ]_vars

\* the scan has passed a vowel other than 'и', 'и' and 'а': 'ii' and 'a' were
\* emitted for the last two
GlidePrecedenceWitness ==
    /\ wpc = "scan"
    /\ i = 3
    /\ letters[1] \in vowels \ { "cy_i" }
    /\ letters[2] = "cy_i"
    /\ letters[3] = "cy_a"
    /\ Len(result) = 3
    /\ result[2] = <<"i", "i">>
    /\ result[3] = <<"a">>

----------------------------------------------------------------------------
\* 'ь' and 'Ь'
SoftSigns == { "cy_soft", "CY_SOFT" }

\* the basic Cyrillic and the Chuvash letters, of either case
CyrillicOrChuvashLetters ==
    { c \in UpperChars \cup LowerChars : ToLower(c) \in CyrLower \cup { "cy_io" } \cup ChuvashLower }

\* the soft-sign stage of the word has run
SoftSignStageDone == lang = "chuvash" /\ wpc \in { "iotation", "map" }

\* 'пирень' and 'пиренн'
Piren ==
    << "cy_pe", "cy_i", "cy_er", "cy_ie", "cy_en", "cy_soft" >>
PirenDoubled ==
    << "cy_pe", "cy_i", "cy_er", "cy_ie", "cy_en", "cy_en" >>

\* C21 as stated: process_soft_sign replaces every soft sign right after a
\* basic Cyrillic or Chuvash letter by a copy of that letter, leaves every
\* other character unchanged and keeps the length, also in runs of soft signs
SoftSignCopiesPrevious ==
    SoftSignStageDone =>
        /\ Len(processed_word) = Len(word)
        /\ \A p \in DOMAIN word :
             processed_word[p] =
                IF word[p] \in SoftSigns /\ p > 1 /\ word[p - 1] \in CyrillicOrChuvashLetters
                THEN word[p - 1]
                ELSE word[p]

\* C21: process_soft_sign keeps the length and every character that is not a
\* soft sign; a soft sign right after a basic Cyrillic or Chuvash letter that
\* is not itself a soft sign becomes a copy of that letter; a soft sign right
\* after a soft sign stays as it is or becomes a copy of the sign before it;
\* any other soft sign is unchanged; 'пирень' gives 'пиренн'
SoftSignCopiesLetter ==
    /\ SoftSignStageDone =>
        /\ Len(processed_word) = Len(word)
        /\ \A p \in DOMAIN word :
             IF word[p] \notin SoftSigns \/ p = 1 THEN processed_word[p] = word[p]
             ELSE IF word[p - 1] \in SoftSigns THEN processed_word[p] \in { word[p], word[p - 1] }
             ELSE IF word[p - 1] \in CyrillicOrChuvashLetters THEN processed_word[p] = word[p - 1]
             ELSE processed_word[p] = word[p]
    /\ process_soft_sign(Piren) = PirenDoubled

\* a consonant, 'Ь' and 'ь': the first sign has become the consonant and the
\* second is still 'ь'
SoftSignCopiesLetterWitness ==
    /\ SoftSignStageDone
    /\ Len(word) >= 3
    /\ word[1] = "cy_en"
    /\ word[2] = "CY_SOFT"
    /\ word[3] = "cy_soft"
    /\ processed_word[2] = "cy_en"
    /\ processed_word[3] = "cy_soft"

----------------------------------------------------------------------------
\* the Cyrillic and Chuvash consonants, of either case
ConsonantLetters ==
    { c \in CyrillicOrChuvashLetters :
        ToLower(c) \notin vowels \cup soft_signs \cup { "cy_a_breve", "cy_ie_breve", "cy_u_dacute" } }

\* the one-character form of 'е', 'ё', 'ю', 'я', with eForm that of 'е'
ContractedForm(c, eForm) ==
    IF c = "cy_ie" THEN << eForm >>
    ELSE IF c = "cy_io" THEN <<"o_uml">>
    ELSE IF c = "cy_yu" THEN <<"u_uml">>
    ELSE <<"a_uml">>

\* 'je', 'jo', 'ju', 'ja'
TwoCharacterForm(c) ==
    IF c = "cy_ie" THEN <<"j", "e">>
    ELSE IF c = "cy_io" THEN <<"j", "o">>
    ELSE IF c = "cy_yu" THEN <<"j", "u">>
    ELSE <<"j", "a">>

\* a form with its first letter capitalized
CapitalizeFirst(form) == [ k \in DOMAIN form |-> IF k = 1 THEN ToUpper(form[k]) ELSE form[k] ]

\* the word w with each 'е', 'ё', 'ю', 'я' of either case in its contracted
\* form after a consonant and in its two-character form otherwise
ExpectedIotation(w, eForm) ==
    join([ p \in DOMAIN w |->
             IF ToLower(w[p]) \in { "cy_ie", "cy_io", "cy_yu", "cy_ya" }
             THEN LET form == IF p > 1 /\ w[p - 1] \in ConsonantLetters
                              THEN ContractedForm(ToLower(w[p]), eForm)
                              ELSE TwoCharacterForm(ToLower(w[p]))
                  IN  IF isupper(w[p]) THEN CapitalizeFirst(form) ELSE form
             ELSE << w[p] >> ])

\* the iotation stage of the word has run
IotationStageDone == lang = "chuvash" /\ wpc = "map"

\* C22 as stated: after a consonant 'е', 'ё', 'ю', 'я' become e with dot
\* above, 'ö', 'ü', 'ä', otherwise 'je', 'jo', 'ju', 'ja'; a capital letter
\* gives the form with its first letter capitalized
IotationWithDottedE ==
    IotationStageDone => iotated_word = ExpectedIotation(processed_word, "e_dot")

\* C22: after a consonant 'е', 'ё', 'ю', 'я' become plain 'e', 'ö', 'ü', 'ä',
\* otherwise 'je', 'jo', 'ju', 'ja'; a capital letter gives the form with
\* its first letter capitalized; every other character is kept
IotationWithPlainE ==
    IotationStageDone => iotated_word = ExpectedIotation(processed_word, "e")

\* 'Яне' after the iotation stage: 'Ja', the consonant, 'e'
IotationWithPlainEWitness ==
    /\ IotationStageDone
    /\ processed_word = << "CY_YA", "cy_en", "cy_ie" >>
    /\ iotated_word = << "J", "a", "cy_en", "e" >>

----------------------------------------------------------------------------
\* s holds no letter of the source alphabet of variant l
FreeOfSourceLetters(l, s) == \A k \in DOMAIN s : s[k] \notin SourceAlphabet(l)

\* transliterate returns s for s
FixedPoint(l, s) ==
    /\ Transliterate(l, s).exc = "none"
    /\ Transliterate(l, s).ret = s

\* every text of the bounded set that transliterate returns from comes back
\* free of source letters and is a fixed point
ReturnedTextConverted ==
    pc = "done" => FreeOfSourceLetters(lang, output) /\ FixedPoint(lang, output)

\* C23: for every text, transliterate returns a text with no letter of the
\* variant's source alphabet, which transliterate then returns unchanged;
\* here for the texts of one word, which transliterate hands to
\* transliterate_word when the detector finds a letter in them
CompleteConversion ==
    (wpc \in { "done", "raised" } /\ TokenSearch(lang, word)) =>
        /\ wpc = "done"
        /\ FreeOfSourceLetters(lang, ret)
        /\ FixedPoint(lang, ret)

----------------------------------------------------------------------------
\* the replies to a text message that passed check_spam_limit
PassedKinds == { "no_letters", "error", "transliteration" }

\* the replies to the commands
CommandKinds == { "welcome", "selected", "current" }

\* the four commands, alone or with arguments
IsCommand(msg) ==
    /\ msg # << >>
    /\ Head(msg) = "/"
    /\ FirstWord(msg) \in { StartCommand, RussianCommand, ChuvashCommand, LanguageCommand }

\* C24: with updates handled one at a time and a clock that never goes back,
\* a user's timestamp changes only when a text message of that user passes
\* check_spam_limit, it then becomes the time of that message, and that time
\* is at least spam_cooldown after the previous one; a rejected message and
\* the commands leave every timestamp unchanged, and no command is rejected
CooldownSpacing ==
    [][ /\ now' >= now
        /\ \A u \in Users :
             user_last_message'[u] # user_last_message[u] =>
                /\ reply'.kind \in PassedKinds
                /\ reply'.user = u
                /\ ~ IsCommand(reply'.text)
                /\ user_last_message'[u] = now
                /\ user_last_message[u] = -1 \/ now - user_last_message[u] >= spam_cooldown
        /\ (reply' # reply /\ reply'.kind \in PassedKinds) =>
                user_last_message'[reply'.user] = now
        /\ (reply' # reply /\ reply'.kind = "wait") =>
                /\ user_last_message' = user_last_message
                /\ ~ IsCommand(reply'.text)
                /\ user_last_message[reply'.user] # -1
                /\ now - user_last_message[reply'.user] < spam_cooldown
        /\ (reply' # reply /\ reply'.kind \in CommandKinds) =>
                user_last_message' = user_last_message ]_vars

\* a user's message passed at 0 and a message of the same user has been
\* rejected in the last second of the cooldown: the timestamp is still 0
CooldownSpacingWitness ==
    /\ reply.kind = "wait"
    /\ now = spam_cooldown - 1
    /\ user_last_message[reply.user] = 0

----------------------------------------------------------------------------
\* the variant user u selected last, Russian if none
SelectedBy(u) == IF user_language[u] = "none" THEN "russian" ELSE user_language[u]

\* C25: a user's stored language changes only by that user's /russian,
\* /chuvash (to that variant) or /start (to Russian); /language, text
\* messages, inline queries and other updates leave every stored language
\* unchanged; a text message that passes the spam check is handled with the
\* variant its sender selected last, Russian if none, and its
\* transliteration is that variant's
LanguageSelection ==
    [][ /\ \A u \in Users :
             user_language'[u] # user_language[u] =>
                /\ reply'.kind \in { "welcome", "selected" }
                /\ reply'.user = u
        /\ (reply' # reply /\ reply'.kind = "welcome") =>
                user_language'[reply'.user] = "russian"
        /\ (reply' # reply /\ reply'.kind = "selected") =>
                user_language'[reply'.user] = reply'.lang
        /\ (reply' # reply /\ reply'.kind = "current") =>
                reply'.lang = SelectedBy(reply'.user)
        /\ (reply' # reply /\ reply'.kind \in PassedKinds) =>
                /\ reply'.lang = SelectedBy(reply'.user)
                /\ reply'.kind = "transliteration" =>
                      reply'.transliterated = Transliterate(reply'.lang, reply'.text).ret ]_vars

\* a user who selected Chuvash has a text transliterated as Chuvash while
\* another user's language is Russian
LanguageSelectionWitness ==
    /\ reply.kind = "transliteration"
    /\ reply.lang = "chuvash"
    /\ user_language[reply.user] = "chuvash"
    /\ reply.transliterated # Transliterate("russian", reply.text).ret
    /\ \E v \in Users : v # reply.user /\ user_language[v] = "russian"

----------------------------------------------------------------------------
\* how many times method was called for the last update
TimesCalled(method) == Cardinality({ k \in DOMAIN api_calls : api_calls[k] = method })

\* C26: for an update with a message (a command, an unknown '/'-command, a
\* text that is accepted, rate-limited or rejected for lacking letters, or a
\* message without text) send_message is called exactly once; for an update
\* with an inline query answer_inline_query is called exactly once and
\* send_message never
OneReplyPerUpdate ==
    IF reply.kind = "none" THEN api_calls = << >>
    ELSE IF reply.kind = "inline_answer"
    THEN TimesCalled("answerInlineQuery") = 1 /\ TimesCalled("sendMessage") = 0
    ELSE /\ reply.kind \in CommandKinds \cup PassedKinds \cup { "wait", "not_text" }
         /\ TimesCalled("sendMessage") = 1
         /\ TimesCalled("answerInlineQuery") = 0

\* an unknown '/'-command of a user was handled as a text within a cooldown:
\* the one call is the rate-limit notice
OneReplyPerUpdateWitness ==
    /\ reply.kind = "wait"
    /\ Head(reply.text) = "/"
    /\ api_calls = << "sendMessage" >>


----------------------------------------------------------------------------
(* Webhook requests handled at the same time: app.run serves each request  *)
(* in a thread of its own, and every request calls handle_update on the    *)
(* one bot of the module, so the threads share user_last_message.  The     *)
(* statements of check_spam_limit are the steps; nothing in it or around   *)
(* it holds a lock, so the steps of the requests interleave in every order *)

NumRequests == 2

\* the requests in progress, each an update with a text message
Requests == 1 .. NumRequests

InitWebhook ==
    /\ lang = "russian"
    /\ exc = "none"
    /\ TextIdle
    /\ WordIdle
    /\ BotInit
    /\ calls = << >>
    /\ outputs = << >>
    /\ attrs = << >>
    /\ requests \in [ Requests -> { [ user |-> u, pc |-> "clock", current_time |-> -1,
                                      passed |-> FALSE ] : u \in Users } ]

\* request r: current_time = time.time()
WebReadClock(r) ==
    /\ requests[r].pc = "clock"
    /\ requests' = [requests EXCEPT ![r].current_time = now, ![r].pc = "member"]
    /\ UNCHANGED <<lang, exc, textVars, wordVars, botVars, calls, outputs, attrs>>

\* request r: if user_id in self.user_last_message
WebTestMember(r) ==
    /\ requests[r].pc = "member"
    /\ requests' = [requests EXCEPT
                      ![r].pc = IF user_last_message[requests[r].user] # -1
                                THEN "compare" ELSE "record"]
    /\ UNCHANGED <<lang, exc, textVars, wordVars, botVars, calls, outputs, attrs>>

\* request r: time_diff = current_time - self.user_last_message[user_id];
\* if time_diff < self.spam_cooldown: return False
WebCompare(r) ==
    /\ requests[r].pc = "compare"
    /\ LET time_diff == requests[r].current_time - user_last_message[requests[r].user]
       IN  requests' = [requests EXCEPT
                          ![r].pc = IF time_diff < spam_cooldown THEN "done" ELSE "record"]
    /\ UNCHANGED <<lang, exc, textVars, wordVars, botVars, calls, outputs, attrs>>

\* request r: self.user_last_message[user_id] = current_time; return True
WebRecord(r) ==
    /\ requests[r].pc = "record"
    /\ user_last_message' =
           [user_last_message EXCEPT ![requests[r].user] = requests[r].current_time]
    /\ requests' = [requests EXCEPT ![r].pc = "done", ![r].passed = TRUE]
    /\ UNCHANGED <<lang, exc, textVars, wordVars, user_language, now, reply, api_calls,
                   calls, outputs, attrs>>

NextWebhook ==
    \/ Tick
    \/ \E r \in Requests : WebReadClock(r)
    \/ \E r \in Requests : WebTestMember(r)
    \/ \E r \in Requests : WebCompare(r)
    \/ \E r \in Requests : WebRecord(r)

SpecWebhook == InitWebhook /\ [][NextWebhook]_vars

\* requests r1 and r2 are of one user and read the clock within one cooldown
\* of each other
SameWindow(r1, r2) ==
    /\ r1 # r2
    /\ requests[r1].user = requests[r2].user
    /\ requests[r1].current_time # -1
    /\ requests[r2].current_time # -1
    /\ requests[r1].current_time - requests[r2].current_time < spam_cooldown
    /\ requests[r2].current_time - requests[r1].current_time < spam_cooldown

\* C27: of two text messages of one user handled at the same time within
\* one cooldown, at most one passes check_spam_limit
AtMostOnePassesPerWindow ==
    \A r1, r2 \in DOMAIN requests :
        SameWindow(r1, r2) => ~ (requests[r1].passed /\ requests[r2].passed)


============================================================================
